---- MODULE Spec2Model ----
(***************************************************************************)
(* A model of the QWC FeatureInfo service: layer resolution, permission   *)
(* merge, provider dispatch and the rendering of the GetFeatureInfo       *)
(* response document.                                                      *)
(*                                                                         *)
(* Python dicts are functions; an optional key is a key that may be       *)
(* missing from DOMAIN.  Python's None is the empty sequence <<>> where a *)
(* value is optional.  XML elements are records; the children of one tag  *)
(* are a sequence.                                                         *)
(***************************************************************************)
EXTENDS Integers, Sequences, FiniteSets, TLC

VARIABLES
    pc,               \* control location of the operation under check
    service_name,     \* query(): service_name
    wms_permissions,  \* what PermissionsReader.resource_permissions returns
    layers,           \* query(): requested layer names
    params,           \* query(): request parameters (a dict)
    resources,        \* FeatureInfoService.resources
    expanded_layers,  \* query(): result of expand_group_layers
    layer_infos,      \* query(): rendered <Layer> elements collected so far
    fetched,          \* log of provider fetches, one entry per call
    info_xml,         \* what query() returned
    layer_out,        \* what one get_layer_info call returned
    settings,         \* tenant settings read by the constructor
    idx,              \* query(): position of the loop over expanded_layers
    sql,              \* info_modules.sql.layer_info: connection, transaction, rows
    _wms_cache,       \* FeatureInfoService._wms_cache (unset is <<>>)
    calls,            \* the calls under way: query() calls on one instance, or the frames of a recursion
    arg,              \* the arguments of the function under check
    ret               \* what the function under check returned

vars == <<pc, service_name, wms_permissions, layers, params, resources, expanded_layers, layer_infos, fetched, info_xml, layer_out, settings, idx, sql, _wms_cache, calls, arg, ret>>

----------------------------------------------------------------------------
(* Bounds of the model *)

MaxReq == 2

MaxStyles == 2

MaxFeatures == 2

\* most features a provider returns for one layer of a whole query
MaxQueryFeatures == 1

\* most grants of one identity in the permission merge
MaxGrants == 2

\* the most group levels of a configured layer tree
MaxDepth == 3

----------------------------------------------------------------------------
(* Helpers for Python values *)

SeqsUpTo(S, n) == UNION {[1..k -> S] : k \in 0..n}

Range(s) == {s[i] : i \in DOMAIN s}

Has(d, k) == k \in DOMAIN d

\* {}: a request without parameters
EmptyParams == [k \in {} |-> ""]

\* dict.get(k, default)
Get(d, k, default) == IF k \in DOMAIN d THEN d[k] ELSE default

RECURSIVE SetToSeq(_)
\* the elements of a finite set as a list, in some fixed order
SetToSeq(S) == IF S = {} THEN <<>> ELSE LET x == CHOOSE y \in S : TRUE IN <<x>> \o SetToSeq(S \ {x})

RECURSIVE SelectIn(_, _)
\* [x for x in s if x in S]
SelectIn(s, S) == IF s = <<>> THEN <<>> ELSE (IF Head(s) \in S THEN <<Head(s)>> ELSE <<>>) \o SelectIn(Tail(s), S)

----------------------------------------------------------------------------
(* Static configuration: one WMS service with the layer tree               *)
(*   g (group) -> w, h      h (group, hide_sublayers) -> s, m              *)
(* w has no info template (WMS fallback), s has a SQL info template and m  *)
(* a custom module info template.                                          *)

KnownService == "somap"

UnknownService == "nomap"

Groups == {"g", "h"}

Leaves == {"w", "s", "m"}

Names == Groups \cup Leaves

UnknownLayer == "x"

ConfigAttributes == <<"a", "b">>

\* resources['wms_services'] as built by load_resources / collect_layers
LoadedResources == (KnownService :> [
    layers |-> (
        "w" :> [title |-> "W", attributes |-> ConfigAttributes, attribute_aliases |-> ("a" :> "A")] @@
        "s" :> [title |-> "S", attributes |-> ConfigAttributes, parent_facade |-> "h",
                info_template |-> [type |-> "sql", template |-> ""]] @@
        "m" :> [title |-> "M", attributes |-> ConfigAttributes, parent_facade |-> "h",
                info_template |-> [type |-> "module", template |-> ""]]),
    group_layers |-> ("g" :> <<"w", "h">> @@ "h" :> <<"s", "m">>)])

----------------------------------------------------------------------------
(* Permissions *)

\* the service check without the look at the identity's grants
wms_permitted_resource_only(res, perms, service) == Has(res, service)

\* wms_permitted: the service is loaded and the identity has a grant for it
wms_permitted(res, perms, service) == Has(res, service) /\ perms # <<>>

\* permitted_layers: names of the grants' layers that are available
permitted_layers(res, perms, service) ==
    LET available == DOMAIN res[service].layers \cup DOMAIN res[service].group_layers
    IN  {l.name : l \in UNION {Range(perms[p].layers) : p \in DOMAIN perms}} \cap available

\* the first entry of a grant's layer list that names the layer (for ... break)
RECURSIVE FirstMatch(_, _)
FirstMatch(ls, layer) == IF ls = <<>> THEN <<>> ELSE IF Head(ls).name = layer THEN <<Head(ls)>> ELSE FirstMatch(Tail(ls), layer)

\* nothing permitted: the accumulators before the loop over the grants
NoPermissions == [attributes |-> {}, info_template |-> FALSE, queryable |-> FALSE]

\* the merge of one entry with the queryable flag of the entry left unread
MergeEntryAlwaysQueryable(acc, l) ==
    [attributes |-> acc.attributes \cup (IF Has(l, "info_attributes") THEN l.info_attributes ELSE Get(l, "attributes", {})),
     info_template |-> acc.info_template \/ Get(l, "info_template", FALSE),
     queryable |-> TRUE]

\* one matching layer entry merged into the accumulators
MergeEntry(acc, l) ==
    [attributes |-> acc.attributes \cup (IF Has(l, "info_attributes") THEN l.info_attributes ELSE Get(l, "attributes", {})),
     info_template |-> acc.info_template \/ Get(l, "info_template", FALSE),
     queryable |-> acc.queryable \/ Get(l, "queryable", TRUE)]

RECURSIVE MergePermissions(_, _, _)
\* the loop over wms_permissions, the first matching layer of each grant
MergePermissions(perms, layer, acc) ==
    IF perms = <<>> THEN acc
    ELSE MergePermissions(Tail(perms), layer, IF FirstMatch(Head(perms).layers, layer) = <<>> THEN acc ELSE MergeEntry(acc, FirstMatch(Head(perms).layers, layer)[1]))

\* the merge that stops at the first grant of the identity
layer_permissions_first_grant(perms, layer) == MergePermissions(IF perms = <<>> THEN <<>> ELSE <<Head(perms)>>, layer, NoPermissions)

\* layer_permissions: merge of the grants that name the layer
layer_permissions(perms, layer) == MergePermissions(perms, layer, NoPermissions)

----------------------------------------------------------------------------
(* Rendering *)

DefaultInfoTemplate == "default_info_template"

\* Python truthiness of an optional integer id (None and 0 are falsy)
TruthyId(fid) == fid # <<>> /\ fid[1] # 0

\* params.get(flag, default).lower() in ["true", "1"]
FlagOn(p, flag, default) == Get(p, flag, default) \in {"true", "1"}

\* the error fragment '<span class="info_error" ...>%s</span>'
ErrorHtml(msg) == [kind |-> "info_error", msg |-> msg, feature |-> 0, attrs |-> <<>>]

\* the fragment the feature template renders for feature number i, which is
\* handed the attribute records of info_feature
RenderedHtml(i, info_attributes) == [kind |-> "rendered", msg |-> "", feature |-> i, attrs |-> [k \in DOMAIN info_attributes |-> info_attributes[k].name]]

\* html_content: the <HtmlContent inline="1"> element holding the fragment
html_content(info_html) == <<[inline |-> "1", text |-> info_html]>>

\* one <Feature> element of layer_template; a missing or falsy key renders nothing
FeatureElement(feature) ==
    [id |-> IF TruthyId(Get(feature, "fid", <<>>)) THEN ToString(feature.fid[1]) ELSE "",
     HtmlContent |-> Get(feature, "html_content", <<>>),
     BoundingBox |-> Get(feature, "bbox", <<>>),
     geometry |-> Get(feature, "wkt_geom", <<>>),
     Attribute |-> LET attributes == Get(feature, "attributes", <<>>)
                   IN  [k \in DOMAIN attributes |-> [name |-> attributes[k].alias, value |-> attributes[k].value, attrname |-> attributes[k].name]]]

\* layer_template.render: the <Layer> element
layer_template_render(layer_name, layer_title, features, display_field, feature_report, parent_facade) ==
    [name |-> layer_title, layername |-> layer_name,
     layerinfo |-> IF parent_facade # <<>> THEN parent_facade[1] ELSE layer_name,
     featurereport |-> feature_report, displayfield |-> display_field,
     Feature |-> [k \in DOMAIN features |-> FeatureElement(features[k])]]

----------------------------------------------------------------------------
(* Attribute values: formatted_value of the WMS adapter                    *)
(*                                                                         *)
(* A date text is the token sequence year - month - day, a datetime text   *)
(* goes on with T hour : minute : second and possibly . microseconds.      *)
(* A Python value is a record tagged by py; the text of a str is a         *)
(* sequence of tokens.                                                     *)

PyInt(v) == [py |-> "int", v |-> v]

PyNone == [py |-> "None"]

PyText(tokens) == [py |-> "str", tokens |-> tokens]

TwoDigits == {"00", "01", "02", "05", "10", "12", "13", "25", "29", "30", "59"}

FourDigits == {"0000", "2023", "2024"}

\* int() of a run of digits
IntOf(tok) ==
    CASE tok \in {"00", "0000"} -> 0
      [] tok = "01" -> 1
      [] tok = "02" -> 2
      [] tok = "05" -> 5
      [] tok = "10" -> 10
      [] tok = "12" -> 12
      [] tok = "13" -> 13
      [] tok = "25" -> 25
      [] tok = "29" -> 29
      [] tok = "30" -> 30
      [] tok = "59" -> 59
      [] tok = "123" -> 123
      [] tok = "2023" -> 2023
      [] tok = "2024" -> 2024

\* %d, %m, %H, %M, %S: two digits; %Y: four digits
Pad2(n) == CHOOSE tok \in TwoDigits : IntOf(tok) = n

Pad4(n) == CHOOSE tok \in FourDigits : IntOf(tok) = n

\* the formatted_value inputs under check
FormatTexts == {
    <<"2024", "-", "01", "-", "05">>,
    <<"2024", "-", "02", "-", "29">>,
    <<"2023", "-", "02", "-", "29">>,
    <<"2024", "-", "13", "-", "05">>,
    <<"0000", "-", "00", "-", "00">>,
    <<"2024", "-", "01", "-", "05", "T", "10", ":", "30", ":", "59">>,
    <<"2024", "-", "01", "-", "05", "T", "25", ":", "30", ":", "59">>,
    <<"2024", "-", "01", "-", "05", "T", "10", ":", "30", ":", "59", ".", "123">>,
    <<"2024", "-", "01", "-", "05", " ", "10", ":", "30", ":", "59">>,
    <<"2024", "-", "01">>,
    <<"NULL">>,
    <<"null">>,
    <<"plain">>,
    <<"12">>,
    <<>>}

\* ^\d{4}-\d{2}-\d{2}$
IsDateText(tokens) == Len(tokens) = 5 /\ tokens[1] \in FourDigits /\ tokens[2] = "-" /\ tokens[3] \in TwoDigits /\ tokens[4] = "-" /\ tokens[5] \in TwoDigits

\* ^\d{4}-\d{2}-\d{2}T\d{2}:\d{2}:\d{2}$
IsDateTimeText(tokens) ==
    /\ Len(tokens) = 11 /\ IsDateText(SubSeq(tokens, 1, 5)) /\ tokens[6] = "T"
    /\ tokens[7] \in TwoDigits /\ tokens[8] = ":" /\ tokens[9] \in TwoDigits /\ tokens[10] = ":" /\ tokens[11] \in TwoDigits

\* ^\d{4}-\d{2}-\d{2}T\d{2}:\d{2}:\d{2}\.\d{1,6}$
IsDateTimeMicrosText(tokens) == Len(tokens) = 13 /\ IsDateTimeText(SubSeq(tokens, 1, 11)) /\ tokens[12] = "." /\ tokens[13] \in {"123"}

DaysInMonth(y, m) ==
    IF m = 2 THEN (IF y % 4 = 0 /\ (y % 100 # 0 \/ y % 400 = 0) THEN 29 ELSE 28)
    ELSE IF m \in {4, 6, 9, 11} THEN 30 ELSE 31

\* datetime.strptime accepts the numbers as a calendar date and a time of day
ValidDate(y, m, d) == y >= 1 /\ m \in 1..12 /\ d \in 1..DaysInMonth(y, m)

ValidTime(H, M, S) == H \in 0..23 /\ M \in 0..59 /\ S \in 0..61

PyRaise(exc) == [py |-> "raise", exc |-> exc]

\* datetime.strptime(m.group(0), '%Y-%m-%d').date()
StrpDate(tokens) ==
    IF ValidDate(IntOf(tokens[1]), IntOf(tokens[3]), IntOf(tokens[5]))
    THEN [py |-> "date", y |-> IntOf(tokens[1]), m |-> IntOf(tokens[3]), d |-> IntOf(tokens[5])]
    ELSE PyRaise("ValueError")

\* datetime.strptime(m.group(0), '%Y-%m-%dT%H:%M:%S') and with '.%f'
StrpDateTime(tokens) ==
    IF ValidDate(IntOf(tokens[1]), IntOf(tokens[3]), IntOf(tokens[5])) /\ ValidTime(IntOf(tokens[7]), IntOf(tokens[9]), IntOf(tokens[11]))
    THEN [py |-> "datetime", y |-> IntOf(tokens[1]), m |-> IntOf(tokens[3]), d |-> IntOf(tokens[5]), H |-> IntOf(tokens[7]), M |-> IntOf(tokens[9]), S |-> IntOf(tokens[11])]
    ELSE PyRaise("ValueError")

\* CONVERSION_RULES, in order
ConversionRules == <<"datetime_micros", "datetime", "date", "NULL">>

ConversionMatches(rule, tokens) ==
    CASE rule = "datetime_micros" -> IsDateTimeMicrosText(tokens)
      [] rule = "datetime" -> IsDateTimeText(tokens)
      [] rule = "date" -> IsDateText(tokens)
      [] rule = "NULL" -> tokens = <<"NULL">>

ConversionApply(rule, tokens) ==
    CASE rule \in {"datetime_micros", "datetime"} -> StrpDateTime(tokens)
      [] rule = "date" -> StrpDate(tokens)
      [] rule = "NULL" -> PyNone

RECURSIVE Convert(_, _)
\* for rule in CONVERSION_RULES: if match: value = rule[1](match); break
Convert(rules, value) ==
    IF rules = <<>> THEN value
    ELSE IF ConversionMatches(Head(rules), value.tokens) THEN ConversionApply(Head(rules), value.tokens)
    ELSE Convert(Tail(rules), value)

\* strftime with the pattern
Strftime(value, formatstr) ==
    IF formatstr = "%d.%m.%Y" THEN <<Pad2(value.d), ".", Pad2(value.m), ".", Pad4(value.y)>>
    ELSE IF formatstr = "%d.%m.%Y %H:%M:%S" THEN <<Pad2(value.d), ".", Pad2(value.m), ".", Pad4(value.y), " ", Pad2(value.H), ":", Pad2(value.M), ":", Pad2(value.S)>>
    ELSE IF formatstr = "%Y" THEN <<Pad4(value.y)>>
    ELSE <<formatstr>>

\* the format specifiers under check: none, an integer type, a strftime
\* pattern, a width with alignment, two lookup tables and a broken one
NoFormat == ""

WidthFormat == ">5"

DashLookup == "{\"-\":\"none\",\"12\":\"twelve\"}"

OneLookup == "{\"1\":\"one\"}"

BadLookup == "{bad"

FormatSpecs == {NoFormat, "d", "%Y", WidthFormat, DashLookup, OneLookup, BadLookup}

\* formatstr.startswith('{')
IsLookup(formatstr) == formatstr \in {DashLookup, OneLookup, BadLookup}

\* json.loads(formatstr): the table from text to text, or nothing if it raises
LookupTable(formatstr) ==
    IF formatstr = DashLookup THEN <<[t \in {<<"-">>, <<"12">>} |-> IF t = <<"-">> THEN <<"none">> ELSE <<"twelve">>]>>
    ELSE IF formatstr = OneLookup THEN <<[t \in {<<"1">>} |-> <<"one">>]>>
    ELSE <<>>

\* typechar = formatstr[-1] is one of the integer types
IntegerType(formatstr) == formatstr \in {"d", BadLookup}

\* int(value) for a format of an integer type: the digits, or ValueError
TypedByFormat(value, formatstr) ==
    IF IntegerType(formatstr) /\ value.py = "str" /\ value.tokens = <<"12">> THEN PyInt(12) ELSE value

RECURSIVE TextLen(_)
\* len() of a text
TextLen(tokens) == IF tokens = <<>> THEN 0 ELSE Len(Head(tokens)) + TextLen(Tail(tokens))

\* format(text, '>w'): spaces in front up to the width w
PadLeft(tokens, w) == IF TextLen(tokens) >= w THEN tokens ELSE [k \in 1..(w - TextLen(tokens)) |-> " "] \o tokens

\* format(value, formatstr), or the value itself when format raises
FormatOrKeep(value, formatstr) ==
    IF value.py \in {"date", "datetime"} THEN PyText(Strftime(value, formatstr))
    ELSE IF value.py = "int" /\ formatstr = "d" THEN PyText(<<"12">>)
    ELSE IF value.py = "str" /\ formatstr = WidthFormat THEN PyText(PadLeft(value.tokens, 5))
    ELSE value

\* lookup.get(value) or value
LookupOrKeep(lookup, value) == IF value.py = "str" /\ value.tokens \in DOMAIN lookup THEN PyText(lookup[value.tokens]) ELSE value

\* the part of formatted_value after the conversion rules
FormatConverted(value, formatstr) ==
    LET typed == TypedByFormat(value, formatstr)
        default == IF formatstr # "" THEN formatstr
                   ELSE IF typed.py = "datetime" THEN "%d.%m.%Y %H:%M:%S"
                   ELSE IF typed.py = "date" THEN "%d.%m.%Y"
                   ELSE ""
        shown == IF typed.py = "None" THEN PyText(<<"-">>) ELSE typed
    IN  IF default = "" THEN shown
        ELSE IF IsLookup(default) THEN (IF LookupTable(default) = <<>> THEN PyRaise("JSONDecodeError") ELSE LookupOrKeep(LookupTable(default)[1], shown))
        ELSE FormatOrKeep(shown, default)

\* formatted_value(value, formatstr, logger): formatstr is "" for None
formatted_value(value, formatstr) ==
    IF Convert(ConversionRules, value).py = "raise" THEN Convert(ConversionRules, value)
    ELSE FormatConverted(Convert(ConversionRules, value), formatstr)

\* the attribute values of the GetFeatureInfo responses and what they are
\* formatted to, with the tokens of each
WmsTexts == {"v", "NULL", "-", "2023-02-29", "2024-01-05", "05.01.2024", "2024"}

TokensOf(s) ==
    CASE s = "v" -> <<"v">>
      [] s = "2023-02-29" -> <<"2023", "-", "02", "-", "29">>
      [] s = "2024-01-05" -> <<"2024", "-", "01", "-", "05">>
      [] s = "05.01.2024" -> <<"05", ".", "01", ".", "2024">>
      [] s = "2024" -> <<"2024">>
      [] s = "NULL" -> <<"NULL">>
      [] s = "-" -> <<"-">>

TextOf(tokens) == CHOOSE s \in WmsTexts : TokensOf(s) = tokens

\* formatted_value(value, format, logger) raises
FormatRaises(value, format) == formatted_value(PyText(TokensOf(value)), format).py = "raise"

\* formatted_value(value, format, logger) where it returns
FormattedText(value, format) == TextOf(formatted_value(PyText(TokensOf(value)), format).tokens)

\* the attributes list of a feature: name and formatted value
FormattedAttributes(attributes, attribute_formats) == [k \in DOMAIN attributes |-> [name |-> attributes[k].name, value |-> FormattedText(attributes[k].value, Get(attribute_formats, attributes[k].name, ""))]]

\* formatting one of the attributes raises
AnyFormatRaises(attributes, attribute_formats) == \E k \in DOMAIN attributes : FormatRaises(attributes[k].value, Get(attribute_formats, attributes[k].name, ""))

----------------------------------------------------------------------------
(* Provider adapters.  What a backend answers is an input of the model.    *)

\* reverse lookup for attribute names from alias
AliasAttributes(attribute_aliases) == [al \in {attribute_aliases[n] : n \in DOMAIN attribute_aliases} |-> CHOOSE n \in DOMAIN attribute_aliases : attribute_aliases[n] = al]

\* info_attributes[name] = value on an OrderedDict kept as a list of pairs
OrderedPut(od, name, value) ==
    IF \E k \in DOMAIN od : od[k].name = name
    THEN [k \in DOMAIN od |-> IF od[k].name = name THEN [name |-> name, value |-> value] ELSE od[k]]
    ELSE Append(od, [name |-> name, value |-> value])

RECURSIVE ParseAttributes(_, _, _, _, _)
\* the loop over a <Feature>'s <Attribute> elements: (info_attributes, geometry)
ParseAttributes(attrEls, acc, permitted_attributes, alias_attributes, skip_empty) ==
    IF attrEls = <<>> THEN acc
    ELSE LET el == Head(attrEls)
             name == Get(alias_attributes, el.name, el.name)
             next == IF name \notin Range(permitted_attributes) THEN acc
                     ELSE IF el.value \in {"", "NULL", "null"} /\ skip_empty THEN acc
                     ELSE IF name = "geometry" /\ el.type = "derived" THEN [acc EXCEPT !.geometry = <<el.value>>]
                     ELSE [acc EXCEPT !.info_attributes = OrderedPut(@, name, el.value)]
         IN  ParseAttributes(Tail(attrEls), next, permitted_attributes, alias_attributes, skip_empty)

RECURSIVE SelectNamed(_, _)
\* the entries of an attribute list whose name is in S, in list order
SelectNamed(attrs, S) == IF attrs = <<>> THEN <<>> ELSE (IF Head(attrs).name \in S THEN <<Head(attrs)>> ELSE <<>>) \o SelectNamed(Tail(attrs), S)

\* the attributes in response order whatever the flag says
OrderedAttributesAsReturned(info_attributes, permitted_attributes, use_permission_order) == SelectNamed(info_attributes, Range(permitted_attributes))

\* the attributes of a vector feature in permission order or in response order
OrderedAttributes(info_attributes, permitted_attributes, use_permission_order) ==
    IF use_permission_order
    THEN LET present == SelectIn(permitted_attributes, {info_attributes[k].name : k \in DOMAIN info_attributes})
         IN  [k \in DOMAIN present |-> CHOOSE a \in Range(info_attributes) : a.name = present[k]]
    ELSE SelectNamed(info_attributes, Range(permitted_attributes))

\* the attributes of one <Feature> that are kept, before formatting
KeptAttributes(featureEl, permitted_attributes, alias_attributes, module_config) ==
    LET parsed == ParseAttributes(featureEl.Attribute, [info_attributes |-> <<>>, geometry |-> <<>>], permitted_attributes, alias_attributes, module_config.skip_empty_attributes)
    IN  OrderedAttributes(parsed.info_attributes, permitted_attributes, module_config.use_permission_attribute_order)

\* one <Feature> of a vector layer; the empty list when no attribute is left
WmsVectorFeature(featureEl, permitted_attributes, alias_attributes, attribute_formats, module_config) ==
    LET parsed == ParseAttributes(featureEl.Attribute, [info_attributes |-> <<>>, geometry |-> <<>>], permitted_attributes, alias_attributes, module_config.skip_empty_attributes)
        attributes == FormattedAttributes(KeptAttributes(featureEl, permitted_attributes, alias_attributes, module_config), attribute_formats)
    IN  IF attributes = <<>> THEN <<>>
        ELSE <<[id |-> featureEl.id, attributes |-> attributes, bbox |-> featureEl.BoundingBox, geometry |-> parsed.geometry]>>

\* the <Attribute> elements of a raster layer as name and value
RasterAttributes(layerEl) == [k \in DOMAIN layerEl.Attribute |-> [name |-> layerEl.Attribute[k].name, value |-> layerEl.Attribute[k].value]]

\* the pseudo feature of a raster layer: every <Attribute> of the <Layer>
WmsRasterFeature(layerEl, attribute_formats) == [attributes |-> FormattedAttributes(RasterAttributes(layerEl), attribute_formats)]

RECURSIVE WmsFeatures(_, _, _, _, _)
WmsFeatures(featureEls, permitted_attributes, alias_attributes, attribute_formats, module_config) ==
    IF featureEls = <<>> THEN <<>>
    ELSE WmsVectorFeature(Head(featureEls), permitted_attributes, alias_attributes, attribute_formats, module_config) \o WmsFeatures(Tail(featureEls), permitted_attributes, alias_attributes, attribute_formats, module_config)

\* an exception inside the try block: building the access token, the request
\* or the XML parse raises (response.raises), or formatted_value raises on an
\* attribute that is formatted
WmsRaises(response, permitted_attributes, attribute_aliases, attribute_formats, module_config) ==
    \/ response.raises
    \/ /\ response.Layer.Feature # <<>>
       /\ \E k \in DOMAIN response.Layer.Feature :
            AnyFormatRaises(KeptAttributes(response.Layer.Feature[k], permitted_attributes, AliasAttributes(attribute_aliases), module_config), attribute_formats)
    \/ /\ response.Layer.Feature = <<>>
       /\ AnyFormatRaises(RasterAttributes(response.Layer), attribute_formats)

\* the features list where nothing raises
WmsParsed(response, permitted_attributes, attribute_aliases, attribute_formats, module_config) ==
    LET layerEl == response.Layer
    IN  IF layerEl.Feature # <<>>
        THEN WmsFeatures(layerEl.Feature, permitted_attributes, AliasAttributes(attribute_aliases), attribute_formats, module_config)
        ELSE IF layerEl.Attribute # <<>> THEN <<WmsRasterFeature(layerEl, attribute_formats)>>
        ELSE <<>>

\* the adapter with an except clause that keeps the features list
wms_layer_info_keeps_features(response, permitted_attributes, attribute_aliases, attribute_formats, module_config) ==
    IF WmsRaises(response, permitted_attributes, attribute_aliases, attribute_formats, module_config)
    THEN [error |-> "Exception for layer", features |-> <<>>]
    ELSE [features |-> WmsParsed(response, permitted_attributes, attribute_aliases, attribute_formats, module_config)]

\* info_modules.wms.layer_info on the backend's GetFeatureInfo response
wms_layer_info(response, permitted_attributes, attribute_aliases, attribute_formats, module_config) ==
    IF WmsRaises(response, permitted_attributes, attribute_aliases, attribute_formats, module_config)
    THEN [error |-> "Exception for layer"]
    ELSE [features |-> WmsParsed(response, permitted_attributes, attribute_aliases, attribute_formats, module_config)]

\* one result row as a feature: _fid_ is the id, wkt_geom the geometry
RowFeature(row) ==
    LET ids == SelectNamed(row.columns, {"_fid_"})
        geoms == SelectNamed(row.columns, {"wkt_geom"})
    IN  [id |-> IF ids = <<>> THEN <<0>> ELSE <<ids[Len(ids)].value>>,
         attributes |-> SelectNamed(row.columns, {row.columns[k].name : k \in DOMAIN row.columns} \ {"_fid_", "wkt_geom"}),
         geometry |-> IF geoms = <<>> THEN <<>> ELSE <<geoms[Len(geoms)].value>>]

\* info_modules.sql.layer_info: the rows of the query, or the exception
sql_layer_info(db) == IF db.raises THEN [error |-> "Exception for layer"] ELSE [features |-> [k \in DOMAIN db.rows |-> RowFeature(db.rows[k])]]

----------------------------------------------------------------------------
(* get_layer_info *)

\* the info template in effect and the configuration after it was filled in:
\* no template permitted or configured falls back to WMS with the default
\* template; an empty template of the configured dict is overwritten in place
InfoTemplate(res, service, layer, permissions) ==
    LET config == res[service].layers[layer]
        configured == IF permissions.info_template /\ Has(config, "info_template") THEN <<config.info_template>> ELSE <<>>
    IN  IF configured = <<>>
        THEN [info_template |-> [type |-> "wms", template |-> DefaultInfoTemplate], resources |-> res]
        ELSE IF configured[1].template = ""
        THEN [info_template |-> [configured[1] EXCEPT !.template = DefaultInfoTemplate],
              resources |-> [res EXCEPT ![service].layers[layer].info_template.template = DefaultInfoTemplate]]
        ELSE [info_template |-> configured[1], resources |-> res]

\* how the provider call ended: for a custom module the import failed
\* ("ImportError"), the module has no layer_info ("AttributeError"), the call
\* raised ("Exception") or it returned ("return"); the adapters always return
ProviderOutcome(info_template, backend) == IF info_template.type = "module" THEN backend.outcome ELSE "return"

\* the provider dispatch with a module branch that catches ImportError and
\* AttributeError only
ProviderInfoNarrowExcept(info_template, backend, permitted_attributes, attribute_aliases, attribute_formats, module_config) ==
    IF info_template.type = "wms" THEN [py |-> "dict", d |-> wms_layer_info(backend, permitted_attributes, attribute_aliases, attribute_formats, module_config)]
    ELSE IF info_template.type = "sql" THEN [py |-> "dict", d |-> sql_layer_info(backend)]
    ELSE IF info_template.type = "module"
    THEN IF backend.outcome = "ImportError" THEN [py |-> "dict", d |-> [error |-> "ImportError for layer"]]
         ELSE IF backend.outcome = "AttributeError" THEN [py |-> "dict", d |-> [error |-> "AttributeError for layer"]]
         ELSE IF backend.outcome = "Exception" THEN [py |-> "raise", d |-> <<>>]
         ELSE backend.value
    ELSE [py |-> "None", d |-> <<>>]

\* the provider dispatch on info_template['type']: the info result as a Python
\* value ("None", "dict" with its content, or another type)
ProviderInfo(info_template, backend, permitted_attributes, attribute_aliases, attribute_formats, module_config) ==
    IF info_template.type = "wms" THEN [py |-> "dict", d |-> wms_layer_info(backend, permitted_attributes, attribute_aliases, attribute_formats, module_config)]
    ELSE IF info_template.type = "sql" THEN [py |-> "dict", d |-> sql_layer_info(backend)]
    ELSE IF info_template.type = "module"
    THEN IF backend.outcome = "ImportError" THEN [py |-> "dict", d |-> [error |-> "ImportError for layer"]]
         ELSE IF backend.outcome = "AttributeError" THEN [py |-> "dict", d |-> [error |-> "AttributeError for layer"]]
         ELSE IF backend.outcome = "Exception" THEN [py |-> "dict", d |-> [error |-> "Exception in custom info module"]]
         ELSE backend.value
    ELSE [py |-> "None", d |-> <<>>]

\* info_feature._attributes after the add() calls for one feature
InfoAttributes(feature, attribute_aliases) ==
    LET attributes == Get(feature, "attributes", <<>>)
    IN  [k \in DOMAIN attributes |-> [name |-> attributes[k].name, value |-> attributes[k].value, alias |-> Get(attribute_aliases, attributes[k].name, attributes[k].name)]]

\* geom_center over the parsed WKT, written back as a WKT point
Centroid(geometry) == "POINT"

\* one pass of the feature loop for feature i, with error_msg as the previous
\* passes left it; error_msg is not reset at the start of a pass
RenderFeature(i, feature, outcome, error_msg, c) ==
    LET info_attributes == InfoAttributes(feature, c.attribute_aliases)
        fid == Get(feature, "id", <<>>)
        bbox == Get(feature, "bbox", <<>>)
        geometry == Get(feature, "geometry", <<>>)
        error_after == IF outcome \in {"TemplateSyntaxError", "TemplateError"} THEN <<outcome>> ELSE error_msg
        info_html == IF error_after # <<>> THEN ErrorHtml(error_after[1]) ELSE RenderedHtml(i, info_attributes)
        filterobj == c.layerattribs.obj
        keep_attrs == filterobj[c.layer] \cup Range(c.display_field)
        attributes == IF c.layerattribs.json = "ok" /\ Has(filterobj, c.layer) THEN SelectNamed(info_attributes, keep_attrs) ELSE info_attributes
        centroid == c.geomcentroid /\ geometry # <<>>
    IN  [raised |-> outcome = "Exception" \/ c.layerattribs.json = "invalid",
         error_msg |-> error_after,
         feature |-> [fid |-> fid,
                      html_content |-> IF c.with_htmlcontent THEN html_content(info_html) ELSE <<>>,
                      bbox |-> IF c.with_bbox /\ ~centroid THEN bbox ELSE <<>>,
                      wkt_geom |-> IF centroid THEN <<Centroid(geometry[1])>> ELSE geometry,
                      attributes |-> attributes]]

RECURSIVE RenderFeatures(_, _, _, _, _)
\* the loop over info['features'] from feature i on: the feature dicts for
\* layer_template, or raised when an exception leaves the loop
RenderFeatures(i, features, tpl, error_msg, c) ==
    IF i > Len(features) THEN [raised |-> FALSE, features |-> <<>>]
    ELSE LET one == RenderFeature(i, features[i], tpl[i], error_msg, c)
             rest == RenderFeatures(i + 1, features, tpl, one.error_msg, c)
         IN  IF one.raised \/ rest.raised THEN [raised |-> TRUE, features |-> <<>>]
             ELSE [raised |-> FALSE, features |-> <<one.feature>> \o rest.features]

\* the part of get_layer_info after the provider returned info, with the test
\* for features made before the test for an error
RenderInfoFeaturesFirst(info, tpl, layer, config, p) ==
    LET title == config.title
        parent_facade == IF Has(config, "parent_facade") THEN <<config.parent_facade>> ELSE <<>>
        display_field == IF Has(config, "display_field") THEN <<config.display_field>> ELSE <<>>
        feature_report == IF Has(config, "feature_report") THEN <<config.feature_report>> ELSE <<>>
        c == [layer |-> layer, attribute_aliases |-> Get(config, "attribute_aliases", <<>>), display_field |-> display_field,
              layerattribs |-> Get(p, "LAYERATTRIBS", [json |-> "empty", obj |-> <<>>]),
              geomcentroid |-> FlagOn(p, "GEOMCENTROID", "false"),
              with_htmlcontent |-> FlagOn(p, "with_htmlcontent", "true"),
              with_bbox |-> FlagOn(p, "with_bbox", "true")]
        rendered == RenderFeatures(1, info.d.features, [k \in DOMAIN info.d.features |-> "ok"], <<>>, c)
    IN  IF info.py # "dict" THEN [ret |-> "None", Layer |-> <<>>]
        ELSE IF Get(info.d, "error", "") # "" /\ Get(info.d, "features", <<>>) = <<>>
        THEN [ret |-> "Layer", Layer |-> <<layer_template_render(layer, title, <<[html_content |-> html_content(ErrorHtml(info.d.error))]>>, <<>>, <<>>, parent_facade)>>]
        ELSE IF Get(info.d, "features", <<>>) = <<>>
        THEN [ret |-> "Layer", Layer |-> <<layer_template_render(layer, title, <<>>, <<>>, <<>>, parent_facade)>>]
        ELSE IF rendered.raised THEN [ret |-> "raise", Layer |-> <<>>]
        ELSE [ret |-> "Layer", Layer |-> <<layer_template_render(layer, title, rendered.features, display_field, feature_report, parent_facade)>>]

\* the part of get_layer_info after the provider returned info
RenderInfo(info, tpl, layer, config, p) ==
    LET title == config.title
        parent_facade == IF Has(config, "parent_facade") THEN <<config.parent_facade>> ELSE <<>>
        display_field == IF Has(config, "display_field") THEN <<config.display_field>> ELSE <<>>
        feature_report == IF Has(config, "feature_report") THEN <<config.feature_report>> ELSE <<>>
        c == [layer |-> layer, attribute_aliases |-> Get(config, "attribute_aliases", <<>>), display_field |-> display_field,
              layerattribs |-> Get(p, "LAYERATTRIBS", [json |-> "empty", obj |-> <<>>]),
              geomcentroid |-> FlagOn(p, "GEOMCENTROID", "false"),
              with_htmlcontent |-> FlagOn(p, "with_htmlcontent", "true"),
              with_bbox |-> FlagOn(p, "with_bbox", "true")]
        rendered == RenderFeatures(1, info.d.features, tpl, <<>>, c)
    IN  IF info.py # "dict" THEN [ret |-> "None", Layer |-> <<>>]
        ELSE IF Get(info.d, "error", "") # ""
        THEN [ret |-> "Layer", Layer |-> <<layer_template_render(layer, title, <<[html_content |-> html_content(ErrorHtml(info.d.error))]>>, <<>>, <<>>, parent_facade)>>]
        ELSE IF Get(info.d, "features", <<>>) = <<>>
        THEN [ret |-> "Layer", Layer |-> <<layer_template_render(layer, title, <<>>, <<>>, <<>>, parent_facade)>>]
        ELSE IF rendered.raised THEN [ret |-> "raise", Layer |-> <<>>]
        ELSE [ret |-> "Layer", Layer |-> <<layer_template_render(layer, title, rendered.features, display_field, feature_report, parent_facade)>>]

\* the four request flags get_layer_info reads and then deletes
FlagNames == {"LAYERATTRIBS", "GEOMCENTROID", "with_htmlcontent", "with_bbox"}

\* the flags as one call of get_layer_info reads them from its params
RequestFlags(p) ==
    [layerattribs |-> Get(p, "LAYERATTRIBS", [json |-> "empty", obj |-> <<>>]),
     geomcentroid |-> FlagOn(p, "GEOMCENTROID", "false"),
     with_htmlcontent |-> FlagOn(p, "with_htmlcontent", "true"),
     with_bbox |-> FlagOn(p, "with_bbox", "true")]

\* the four del statements: the params as get_layer_info leaves them and hands
\* them to the provider
WithoutFlags(p) == [k \in DOMAIN p \ FlagNames |-> p[k]]

\* query() handing its own params to get_layer_info: the deletions are seen
\* by the next pass of the loop
ParamsAfterLayerShared(p, left) == left

\* query() passes dict(params): the deletions are made in the copy and the
\* params of query() are as before the call
ParamsAfterLayer(p, left) == p

\* get_layer_info without the early return for a layer that is not queryable
get_layer_info_no_queryable(res, perms, module_config, service, layer, style, p, backend, tpl) ==
    LET config == res[service].layers[layer]
        permissions == layer_permissions(perms, layer)
        permitted_attributes == SelectIn(Get(config, "attributes", <<>>), permissions.attributes)
        it == InfoTemplate(res, service, layer, permissions)
        info == ProviderInfo(it.info_template, backend, permitted_attributes, Get(config, "attribute_aliases", <<>>), Get(config, "attribute_formats", <<>>), module_config)
        out == RenderInfo(info, tpl, layer, config, p)
    IN  [ret |-> out.ret, Layer |-> out.Layer, resources |-> it.resources, params |-> WithoutFlags(p),
         fetch |-> <<[layer |-> layer, type |-> it.info_template.type, outcome |-> ProviderOutcome(it.info_template, backend), info |-> info, tpl |-> tpl,
                      flags |-> RequestFlags(p), params |-> WithoutFlags(p)]>>]

\* get_layer_info: the rendered <Layer> element ("Layer"), None, or an
\* exception that leaves the call ("raise"); with it the configuration as the
\* call left it and the provider fetch it made
get_layer_info(res, perms, module_config, service, layer, style, p, backend, tpl) ==
    LET config == res[service].layers[layer]
        permissions == layer_permissions(perms, layer)
        permitted_attributes == SelectIn(Get(config, "attributes", <<>>), permissions.attributes)
        it == InfoTemplate(res, service, layer, permissions)
        info == ProviderInfo(it.info_template, backend, permitted_attributes, Get(config, "attribute_aliases", <<>>), Get(config, "attribute_formats", <<>>), module_config)
        out == RenderInfo(info, tpl, layer, config, p)
    IN  IF ~permissions.queryable THEN [ret |-> "None", Layer |-> <<>>, resources |-> res, params |-> WithoutFlags(p), fetch |-> <<>>]
        ELSE [ret |-> out.ret, Layer |-> out.Layer, resources |-> it.resources, params |-> WithoutFlags(p),
              fetch |-> <<[layer |-> layer, type |-> it.info_template.type, outcome |-> ProviderOutcome(it.info_template, backend), info |-> info, tpl |-> tpl,
                      flags |-> RequestFlags(p), params |-> WithoutFlags(p)]>>]

----------------------------------------------------------------------------
(* Layer resolver *)

\* the list comprehension over group_layers.get(layer): permitted sublayers
\* the permitted children of a group, last declared first
PermittedSublayersReversed(layer, group_layers, permitted) == [k \in DOMAIN SelectIn(group_layers[layer], permitted) |-> SelectIn(group_layers[layer], permitted)[Len(SelectIn(group_layers[layer], permitted)) + 1 - k]]

PermittedSublayers(layer, group_layers, permitted) == SelectIn(group_layers[layer], permitted)

\* a group without recursion: its permitted children are emitted as they are
ExpandFromShallow(i, requested_layers, requested_styles, group_layers, permitted) ==
    LET Style(k) == IF k <= Len(requested_styles) THEN requested_styles[k] ELSE ""
        One(k) == IF requested_layers[k] \notin permitted THEN <<>>
                  ELSE IF requested_layers[k] \in DOMAIN group_layers
                       THEN [j \in 1..Len(PermittedSublayers(requested_layers[k], group_layers, permitted)) |->
                                [layer |-> PermittedSublayers(requested_layers[k], group_layers, permitted)[j], style |-> Style(k)]]
                       ELSE <<[layer |-> requested_layers[k], style |-> Style(k)]>>
        RECURSIVE Go(_)
        Go(k) == IF k > Len(requested_layers) THEN <<>> ELSE One(k) \o Go(k + 1)
    IN  Go(i)

RECURSIVE ExpandFromUnfiltered(_, _, _, _, _)
\* the loop without the permission test on a requested leaf
ExpandFromUnfiltered(i, requested_layers, requested_styles, group_layers, permitted) ==
    IF i > Len(requested_layers) THEN <<>>
    ELSE LET layer == requested_layers[i]
             style == IF i <= Len(requested_styles) THEN requested_styles[i] ELSE ""
             sublayers == PermittedSublayers(layer, group_layers, permitted)
             sublayer_styles == [j \in 1..Len(sublayers) |-> style]
             here == IF layer \in DOMAIN group_layers
                     THEN IF layer \in permitted THEN ExpandFromUnfiltered(1, sublayers, sublayer_styles, group_layers, permitted) ELSE <<>>
                     ELSE <<[layer |-> layer, style |-> style]>>
         IN  here \o ExpandFromUnfiltered(i + 1, requested_layers, requested_styles, group_layers, permitted)

RECURSIVE ExpandFromShifted(_, _, _, _, _)
\* the resolver taking the style at the position among the permitted entries
ExpandFromShifted(i, requested_layers, requested_styles, group_layers, permitted) ==
    IF i > Len(requested_layers) THEN <<>>
    ELSE LET layer == requested_layers[i]
             at == Len(SelectIn(SubSeq(requested_layers, 1, i), permitted))
             style == IF at \in 1..Len(requested_styles) THEN requested_styles[at] ELSE ""
             sublayers == PermittedSublayers(layer, group_layers, permitted)
             sublayer_styles == [j \in 1..Len(sublayers) |-> style]
             here == IF layer \in permitted
                     THEN IF layer \in DOMAIN group_layers
                          THEN ExpandFromShifted(1, sublayers, sublayer_styles, group_layers, permitted)
                          ELSE <<[layer |-> layer, style |-> style]>>
                     ELSE <<>>
         IN  here \o ExpandFromShifted(i + 1, requested_layers, requested_styles, group_layers, permitted)

RECURSIVE ExpandFromThroughGroups(_, _, _, _, _)
\* the loop with the permission test made on leaves only: a group is
\* replaced by its sublayers whether it is permitted or not
ExpandFromThroughGroups(i, requested_layers, requested_styles, group_layers, permitted) ==
    IF i > Len(requested_layers) THEN <<>>
    ELSE LET layer == requested_layers[i]
             style == IF i <= Len(requested_styles) THEN requested_styles[i] ELSE ""
             sublayers == group_layers[layer]
             sublayer_styles == [j \in 1..Len(sublayers) |-> style]
             here == IF layer \in DOMAIN group_layers
                     THEN ExpandFromThroughGroups(1, sublayers, sublayer_styles, group_layers, permitted)
                     ELSE IF layer \in permitted THEN <<[layer |-> layer, style |-> style]>> ELSE <<>>
         IN  here \o ExpandFromThroughGroups(i + 1, requested_layers, requested_styles, group_layers, permitted)

RECURSIVE ExpandFrom(_, _, _, _, _)
\* the loop of expand_group_layers from index i (1-based) on
ExpandFrom(i, requested_layers, requested_styles, group_layers, permitted) ==
    IF i > Len(requested_layers) THEN <<>>
    ELSE LET layer == requested_layers[i]
             style == IF i <= Len(requested_styles) THEN requested_styles[i] ELSE ""
             sublayers == PermittedSublayers(layer, group_layers, permitted)
             sublayer_styles == [j \in 1..Len(sublayers) |-> style]
             here == IF layer \in permitted
                     THEN IF layer \in DOMAIN group_layers
                          THEN ExpandFrom(1, sublayers, sublayer_styles, group_layers, permitted)
                          ELSE <<[layer |-> layer, style |-> style]>>
                     ELSE <<>>
         IN  here \o ExpandFrom(i + 1, requested_layers, requested_styles, group_layers, permitted)

expand_group_layers(requested_layers, requested_styles, group_layers, permitted) == ExpandFrom(1, requested_layers, requested_styles, group_layers, permitted)

\* the layer names of a resolved list
LayerNames(expanded) == [i \in DOMAIN expanded |-> expanded[i].layer]

\* requested_styles = params['styles'].split(",") if 'styles' in params else []
RequestedStyles(p) == Get(p, "styles", <<>>)

----------------------------------------------------------------------------
(* Inputs: requests, grants, and what the backends answer *)

\* a grant whose layer list names the layers of S, each entry with the flags
GrantOf(S, flags) == [layers |-> SetToSeq({[name |-> n] @@ flags : n \in S})]

AllAttributes == {"a", "b"}

\* tenant settings: the defaults of the constructor
DefaultSettings == [skip_empty_attributes |-> FALSE, use_permission_attribute_order |-> FALSE]

\* how the feature template evaluates on each of n features: it compiles and
\* renders ("ok"), fails with a jinja2 TemplateError, fails with another
\* exception raised from inside the template, or does not compile at all
TemplateRuns(n) == [1..n -> {"ok", "TemplateError", "Exception"}] \cup {[k \in 1..n |-> "TemplateSyntaxError"]}

\* result rows of the info query: _fid_, attribute columns and wkt_geom
SqlRows(ids, attrLists) == {[columns |-> <<[name |-> "_fid_", value |-> id]>> \o [k \in DOMAIN al |-> [name |-> al[k], value |-> "v"]] \o <<[name |-> "wkt_geom", value |-> "POLYGON"]>>] : id \in ids, al \in attrLists}

\* the database: the query raises, or yields up to n rows
SqlBackends(ids, attrLists, n) == {[raises |-> TRUE, rows |-> <<>>]} \cup {[raises |-> FALSE, rows |-> rs] : rs \in SeqsUpTo(SqlRows(ids, attrLists), n)}

\* features a custom module may return
ModuleFeatures(ids, attrLists) == {[id |-> <<id>>, attributes |-> [k \in DOMAIN al |-> [name |-> al[k], value |-> "v"]], bbox |-> <<"bbox">>, geometry |-> <<"POLYGON">>] : id \in ids, al \in attrLists}

\* a custom module: the import fails, it has no layer_info, the call raises,
\* or it returns None, a list, or a dict with 'error' and/or 'features'
ModuleBackends(ids, attrLists, n) ==
    {[outcome |-> o, value |-> [py |-> "None", d |-> <<>>]] : o \in {"ImportError", "AttributeError", "Exception", "return"}}
    \cup {[outcome |-> "return", value |-> [py |-> "list", d |-> <<>>]]}
    \cup {[outcome |-> "return", value |-> [py |-> "dict", d |-> [features |-> fs]]] : fs \in SeqsUpTo(ModuleFeatures(ids, attrLists), n)}
    \cup {[outcome |-> "return", value |-> [py |-> "dict", d |-> [error |-> "module error", features |-> fs]]] : fs \in SeqsUpTo(ModuleFeatures(ids, attrLists), n)}
    \cup {[outcome |-> "return", value |-> [py |-> "dict", d |-> [error |-> "module error"]]]}

\* <Feature> elements of the WMS backend; it may echo the alias of an attribute
WmsFeatureEls(ids, attrLists, values) == {[id |-> <<id>>, Attribute |-> [k \in DOMAIN al |-> [name |-> al[k], value |-> v, type |-> ""]], BoundingBox |-> <<"bbox">>] : id \in ids, al \in attrLists, v \in values}

\* where the WMS adapter may raise before it reads the response
WmsStages == {"create_access_token", "requests.get", "parseString"}

\* the WMS backend: the token, the request or the parse raises, or the
\* response holds a vector layer of up to n features, or a raster layer with
\* attributes only
WmsBackends(ids, attrLists, values, n) ==
    {[raises |-> TRUE, stage |-> s, Layer |-> [Feature |-> <<>>, Attribute |-> <<>>]] : s \in WmsStages}
    \cup {[raises |-> FALSE, stage |-> "", Layer |-> [Feature |-> fs, Attribute |-> <<>>]] : fs \in SeqsUpTo(WmsFeatureEls(ids, attrLists, values), n)}
    \cup {[raises |-> FALSE, stage |-> "", Layer |-> [Feature |-> <<>>, Attribute |-> [k \in DOMAIN al |-> [name |-> al[k], value |-> v, type |-> ""]]]] : al \in attrLists \ {<<>>}, v \in values}

\* the attribute names a database or a module returns
ProviderAttrLists == {<<"a">>, <<"a", "b">>}

\* the attribute names the WMS backend returns ("A" is the alias of a)
UpstreamAttrLists == {<<"A">>, <<"b", "A">>}

\* every attribute list of the providers and of the upstream WMS
AllAttrLists == [provider |-> ProviderAttrLists, upstream |-> UpstreamAttrLists, values |-> {"v", "2023-02-29"}]

\* the attribute lists of the whole-query specification
QueryAttrLists == [provider |-> {<<"a", "b">>}, upstream |-> {<<"b", "A">>}, values |-> {"v"}]

\* what the backend of an info type may answer
Backends(type, ids, lists, n) ==
    IF type = "wms" THEN WmsBackends(ids, lists.upstream, lists.values, n)
    ELSE IF type = "sql" THEN SqlBackends(ids, lists.provider, n)
    ELSE ModuleBackends(ids, lists.provider, n)

\* the features the feature loop of get_layer_info runs over
LoopFeatures(info) == IF info.py = "dict" /\ Get(info.d, "error", "") = "" THEN Get(info.d, "features", <<>>) ELSE <<>>

NoDocument == [root |-> "", code |-> "", Layer |-> <<>>]

NoLayerOut == [ret |-> "pending", Layer |-> <<>>]

\* no database call under way
\* no call of the database adapter: its arguments and its bind parameters
NoSqlCall == [params |-> <<>>, crs |-> <<>>, x |-> 0, y |-> 0]

NoSql == [pc |-> "idle", conn |-> "none", trans |-> "none", cursor |-> <<>>, features |-> <<>>, result |-> <<>>, call |-> NoSqlCall, sql_params |-> <<>>]

\* the instance attribute _wms_cache does not exist
NoCache == <<>>

\* no concurrent calls under way
NoCalls == <<>>

\* no function under check
NoArg == [fn |-> ""]

NoRet == <<>>

----------------------------------------------------------------------------
(* Specification SpecExpand: expand_group_layers on every request of up to *)
(* MaxReq names with up to MaxStyles styles, for every permitted set       *)

StyleParams == {<<>>} \cup {("styles" :> st) : st \in UNION {[1..k -> {"", "st"}] : k \in 1..MaxStyles}}

InitExpand ==
    /\ sql = NoSql /\ _wms_cache = NoCache /\ calls = NoCalls /\ arg = NoArg /\ ret = NoRet
    /\ pc = "expand"
    /\ service_name = KnownService
    /\ resources = LoadedResources
    /\ settings = DefaultSettings
    /\ layers \in SeqsUpTo(Names \cup {UnknownLayer}, MaxReq)
    /\ params \in StyleParams
    /\ wms_permissions \in {<<GrantOf(S, <<>>)>> : S \in SUBSET (Names \cup {UnknownLayer})}
    /\ expanded_layers = <<>>
    /\ layer_infos = <<>>
    /\ fetched = <<>>
    /\ info_xml = NoDocument
    /\ layer_out = NoLayerOut
    /\ idx = 0

\* the call of expand_group_layers in query()
Expand ==
    /\ pc = "expand"
    /\ expanded_layers' = expand_group_layers(layers, RequestedStyles(params), resources[service_name].group_layers, permitted_layers(resources, wms_permissions, service_name))
    /\ pc' = "expanded"
    /\ UNCHANGED <<service_name, wms_permissions, layers, params, resources, layer_infos, fetched, info_xml, layer_out, settings, idx>>
    /\ UNCHANGED <<sql, _wms_cache, calls, arg, ret>>

NextExpand == Expand

SpecExpand == InitExpand /\ [][NextExpand]_vars
\* the permitted set and the group lookup of the request under check
Permitted == permitted_layers(resources, wms_permissions, service_name)

GroupLayers == resources[service_name].group_layers

\* the request names exactly one group
OneGroupRequested == pc = "expanded" /\ Len(layers) = 1 /\ layers[1] \in DOMAIN GroupLayers

\* C3 as stated: for every group G, expand_group_layers([G]) returns the same
\* leaves in the same order as expand_group_layers of G's immediate children
C3_EveryGroup ==
    OneGroupRequested => LayerNames(expanded_layers) = LayerNames(expand_group_layers(GroupLayers[layers[1]], RequestedStyles(params), GroupLayers, Permitted))

\* C3 amended: for every permitted group G, expand_group_layers([G]) returns
\* the same leaves in the same order as expand_group_layers of G's immediate
\* children; a group that is not permitted expands to nothing
C3_PermittedGroup ==
    /\ (OneGroupRequested /\ layers[1] \in Permitted) => LayerNames(expanded_layers) = LayerNames(expand_group_layers(GroupLayers[layers[1]], RequestedStyles(params), GroupLayers, Permitted))
    /\ (OneGroupRequested /\ layers[1] \notin Permitted) => expanded_layers = <<>>

\* a permitted group with a nested group and a child that is not permitted
C3_Witness == OneGroupRequested /\ layers[1] = "g" /\ "m" \notin Permitted /\ LayerNames(expanded_layers) = <<"w", "s">>

----------------------------------------------------------------------------
(* Specification SpecLayer: one get_layer_info call for one leaf layer,    *)
(* for every grant shape, every request flag and every backend answer of   *)
(* up to MaxFeatures features                                              *)

\* the entry of the layer in the identity's grant
LayerGrantFlags == {("attributes" :> A) @@ it @@ q : A \in {{}, {"a"}, {"a", "b"}}, it \in {<<>>, ("info_template" :> TRUE)}, q \in {<<>>, ("queryable" :> FALSE)}}

\* the LAYERATTRIBS parameter: a JSON object layer -> attribute names, or a
\* string that is not JSON
LayerAttribs == {[json |-> "ok", obj |-> ("w" :> {"a"}) @@ ("s" :> {"a"})], [json |-> "invalid", obj |-> <<>>]}

LayerParams == {wh @@ wb @@ gc @@ la : wh \in {<<>>, ("with_htmlcontent" :> "false")}, wb \in {<<>>, ("with_bbox" :> "false")}, gc \in {<<>>, ("GEOMCENTROID" :> "true")}, la \in {<<>>} \cup {("LAYERATTRIBS" :> v) : v \in LayerAttribs}}

\* the info type get_layer_info dispatches on for the layer
InfoType(layer) == InfoTemplate(resources, service_name, layer, layer_permissions(wms_permissions, layer)).info_template.type

\* what the provider of the layer returns for the backend's answer
InfoOf(layer, backend) ==
    LET config == resources[service_name].layers[layer]
        permissions == layer_permissions(wms_permissions, layer)
    IN  ProviderInfo(InfoTemplate(resources, service_name, layer, permissions).info_template, backend,
                     SelectIn(Get(config, "attributes", <<>>), permissions.attributes), Get(config, "attribute_aliases", <<>>), Get(config, "attribute_formats", <<>>), settings)

InitLayer ==
    /\ sql = NoSql /\ _wms_cache = NoCache /\ calls = NoCalls /\ arg = NoArg /\ ret = NoRet
    /\ pc = "call"
    /\ service_name = KnownService
    /\ resources = LoadedResources
    /\ settings = DefaultSettings
    /\ layers \in {<<l>> : l \in Leaves}
    /\ params \in LayerParams
    /\ wms_permissions \in {<<GrantOf({layers[1]}, flags)>> : flags \in LayerGrantFlags}
    /\ expanded_layers = <<>>
    /\ layer_infos = <<>>
    /\ fetched = <<>>
    /\ info_xml = NoDocument
    /\ layer_out = NoLayerOut
    /\ idx = 0

\* one call of get_layer_info
GetLayerInfo ==
    /\ pc = "call"
    /\ \E backend \in Backends(InfoType(layers[1]), {1}, AllAttrLists, MaxFeatures) :
         \E tpl \in TemplateRuns(Len(LoopFeatures(InfoOf(layers[1], backend)))) :
           LET out == get_layer_info(resources, wms_permissions, settings, service_name, layers[1], "", params, backend, tpl)
           IN  /\ layer_out' = [ret |-> out.ret, Layer |-> out.Layer]
               /\ resources' = out.resources
               /\ fetched' = out.fetch
    /\ pc' = "returned"
    /\ UNCHANGED <<service_name, wms_permissions, layers, params, expanded_layers, layer_infos, info_xml, settings, idx>>
    /\ UNCHANGED <<sql, _wms_cache, calls, arg, ret>>

NextLayer == GetLayerInfo

SpecLayer == InitLayer /\ [][NextLayer]_vars

----------------------------------------------------------------------------
(* Specification Spec: query() for one requested name, for every grant     *)
(* over the layer tree and every backend answer of at most one feature     *)

QueryGrantFlags == {("attributes" :> AllAttributes) @@ f : f \in {<<>>, ("info_template" :> TRUE), ("info_template" :> TRUE) @@ ("queryable" :> FALSE)}}

\* two grants of one identity: the first names every layer and sets queryable
\* to false, the second names one leaf and leaves the flag out
MixedGrants == {<<GrantOf(Names, ("attributes" :> AllAttributes) @@ ("info_template" :> TRUE) @@ ("queryable" :> FALSE)), GrantOf({n}, ("attributes" :> AllAttributes) @@ ("info_template" :> TRUE))>> : n \in Leaves}

QueryGrants == {<<>>} \cup {<<GrantOf(S, flags)>> : S \in SUBSET Names, flags \in QueryGrantFlags} \cup MixedGrants

QueryRequests == {<<n>> : n \in Names \cup {UnknownLayer}} \cup {<<"m", "w">>}

QueryParams == {<<>>, ("with_htmlcontent" :> "false")}

\* service_exception(code, message)
service_exception(code) == [root |-> "ServiceExceptionReport", code |-> code, Layer |-> <<>>]

Init ==
    /\ sql = NoSql /\ _wms_cache = NoCache /\ calls = NoCalls /\ arg = NoArg /\ ret = NoRet
    /\ pc = "start"
    /\ service_name \in {KnownService, UnknownService}
    /\ resources = LoadedResources
    /\ settings = DefaultSettings
    /\ layers \in QueryRequests
    /\ params \in QueryParams
    /\ wms_permissions \in QueryGrants
    /\ expanded_layers = <<>>
    /\ layer_infos = <<>>
    /\ fetched = <<>>
    /\ info_xml = NoDocument
    /\ layer_out = NoLayerOut
    /\ idx = 0

\* query() up to the loop: the service check, then the layer resolution
QueryStart ==
    /\ pc = "start"
    /\ IF ~wms_permitted(resources, wms_permissions, service_name)
       THEN /\ info_xml' = service_exception("MapNotDefined")
            /\ pc' = "done"
            /\ UNCHANGED <<expanded_layers, idx>>
       ELSE /\ expanded_layers' = expand_group_layers(layers, RequestedStyles(params), resources[service_name].group_layers, permitted_layers(resources, wms_permissions, service_name))
            /\ idx' = 1
            /\ pc' = "layers"
            /\ UNCHANGED info_xml
    /\ UNCHANGED <<service_name, wms_permissions, layers, params, resources, layer_infos, fetched, layer_out, settings>>
    /\ UNCHANGED <<sql, _wms_cache, calls, arg, ret>>

\* one pass of the loop over expanded_layers; an exception leaves query()
QueryLayer ==
    /\ pc = "layers"
    /\ idx <= Len(expanded_layers)
    /\ \E backend \in Backends(InfoType(expanded_layers[idx].layer), {0, 1}, QueryAttrLists, MaxQueryFeatures) :
         \E tpl \in TemplateRuns(Len(LoopFeatures(InfoOf(expanded_layers[idx].layer, backend)))) :
           LET out == get_layer_info(resources, wms_permissions, settings, service_name, expanded_layers[idx].layer, expanded_layers[idx].style, params, backend, tpl)
           IN  /\ layer_out' = [ret |-> out.ret, Layer |-> out.Layer]
               /\ resources' = out.resources
               /\ fetched' = fetched \o out.fetch
               /\ layer_infos' = layer_infos \o out.Layer
               /\ params' = ParamsAfterLayer(params, out.params)
               /\ pc' = IF out.ret = "raise" THEN "raised" ELSE "layers"
    /\ idx' = idx + 1
    /\ UNCHANGED <<service_name, wms_permissions, layers, expanded_layers, info_xml, settings>>
    /\ UNCHANGED <<sql, _wms_cache, calls, arg, ret>>

\* the end of query(): the document around the collected layer infos
QueryReturn ==
    /\ pc = "layers"
    /\ idx > Len(expanded_layers)
    /\ info_xml' = [root |-> "GetFeatureInfoResponse", code |-> "", Layer |-> layer_infos]
    /\ pc' = "done"
    /\ UNCHANGED <<service_name, wms_permissions, layers, params, resources, expanded_layers, layer_infos, fetched, layer_out, settings, idx>>
    /\ UNCHANGED <<sql, _wms_cache, calls, arg, ret>>

Next == QueryStart \/ QueryLayer \/ QueryReturn

Spec == Init /\ [][Next]_vars

----------------------------------------------------------------------------
(* Specification SpecSql: info_modules.sql.layer_info statement by         *)
(* statement, every database call either returning or raising              *)

\* the variables of the other specifications at rest
QueryIdle ==
    /\ pc = "idle" /\ service_name = KnownService /\ resources = LoadedResources /\ settings = DefaultSettings
    /\ layers = <<>> /\ params = <<>> /\ wms_permissions = <<>> /\ expanded_layers = <<>> /\ layer_infos = <<>>
    /\ fetched = <<>> /\ info_xml = NoDocument /\ layer_out = NoLayerOut /\ idx = 0

\* the rows the info query yields
SqlResults == SeqsUpTo(SqlRows({0, 1}, ProviderAttrLists), MaxFeatures)

\* except Exception as e: return {'error': e}
SqlRaised(s) == [s EXCEPT !.pc = "returned", !.result = <<[error |-> "Exception for layer"]>>]

\* int(s): the integer, or nothing when int raises
ParseInt(s) ==
    CASE s = "2056" -> <<2056>>
      [] s = "4326" -> <<4326>>
      [] s = "3857" -> <<3857>>
      [] OTHER -> <<>>

\* srid = int(crs.split(':')[-1]), 2056 when that raises; the CRS is the list
\* of its parts between the colons, None the empty list
Srid(crs) == IF crs = <<>> \/ ParseInt(crs[Len(crs)]) = <<>> THEN 2056 ELSE ParseInt(crs[Len(crs)])[1]

\* 'POINT({x} {y})'.format(x=x, y=y)
PointWkt(x, y) == "POINT(" \o ToString(x) \o " " \o ToString(y) \o ")"

\* the caller's parameters win over the computed ones
SqlParamsCallerFirst(p, crs, x, y) ==
    p @@ [x |-> x, y |-> y, geom |-> IF Get(p, "filter_geom", "") # "" THEN p.filter_geom ELSE PointWkt(x, y), srid |-> Srid(crs)]

\* sql_params = params.copy(); sql_params.update({'x': .., 'y': .., 'geom': .., 'srid': ..})
SqlParams(p, crs, x, y) ==
    [x |-> x, y |-> y, geom |-> IF Get(p, "filter_geom", "") # "" THEN p.filter_geom ELSE PointWkt(x, y), srid |-> Srid(crs)] @@ p

\* the CRS strings of the calls: EPSG:2056, EPSG:4326, urn:ogc:def:crs:EPSG::3857,
\* CRS84, EPSG: and 4326
SqlCrs == {<<"EPSG", "2056">>, <<"EPSG", "4326">>, <<"urn", "ogc", "def", "crs", "EPSG", "", "3857">>, <<"CRS84">>, <<"EPSG", "">>, <<"4326">>}

\* the caller's parameters: with or without filter_geom, and with keys named
\* like the computed ones
SqlCallerParams ==
    {EmptyParams, ("filter_geom" :> ""), ("filter_geom" :> "POLYGON((0 0,2 0,2 2,0 0))"),
     ("geom" :> "LINESTRING(0 0,1 1)") @@ ("srid" :> 1), ("x" :> 9) @@ ("y" :> 9) @@ ("filter_geom" :> "POLYGON((0 0,2 0,2 2,0 0))"),
     ("srid" :> 4326) @@ ("i" :> "5")}

\* the calls of the database adapter
SqlCalls == {[params |-> ps, crs |-> crs, x |-> 1, y |-> 2] : ps \in SqlCallerParams, crs \in SqlCrs}

InitSql ==
    /\ QueryIdle /\ _wms_cache = NoCache /\ calls = NoCalls /\ arg = NoArg /\ ret = NoRet
    /\ sql \in {[NoSql EXCEPT !.pc = "connect", !.cursor = rows, !.call = c] : rows \in SqlResults, c \in SqlCalls}

\* conn = db.connect()
SqlConnect ==
    /\ sql.pc = "connect"
    /\ \E raises \in BOOLEAN : sql' = IF raises THEN SqlRaised(sql) ELSE [sql EXCEPT !.pc = "begin", !.conn = "open"]
    /\ UNCHANGED <<pc, service_name, wms_permissions, layers, params, resources, expanded_layers, layer_infos, fetched, info_xml, layer_out, settings, idx, _wms_cache, calls, arg, ret>>

\* trans = conn.begin()
SqlBegin ==
    /\ sql.pc = "begin"
    /\ \E raises \in BOOLEAN : sql' = IF raises THEN SqlRaised(sql) ELSE [sql EXCEPT !.pc = "execute", !.trans = "active"]
    /\ UNCHANGED <<pc, service_name, wms_permissions, layers, params, resources, expanded_layers, layer_infos, fetched, info_xml, layer_out, settings, idx, _wms_cache, calls, arg, ret>>

\* result = conn.execute(sql_text(sql), **sql_params)
SqlExecute ==
    /\ sql.pc = "execute"
    /\ \E raises \in BOOLEAN :
         LET bound == [sql EXCEPT !.sql_params = SqlParams(sql.call.params, sql.call.crs, sql.call.x, sql.call.y)]
         IN  sql' = IF raises THEN SqlRaised(bound) ELSE [bound EXCEPT !.pc = "rows"]
    /\ UNCHANGED <<pc, service_name, wms_permissions, layers, params, resources, expanded_layers, layer_infos, fetched, info_xml, layer_out, settings, idx, _wms_cache, calls, arg, ret>>

\* for row in result: one row read and turned into a feature
SqlRow ==
    /\ sql.pc = "rows" /\ sql.cursor # <<>>
    /\ \E raises \in BOOLEAN : sql' = IF raises THEN SqlRaised(sql) ELSE [sql EXCEPT !.cursor = Tail(@), !.features = Append(@, RowFeature(Head(sql.cursor)))]
    /\ UNCHANGED <<pc, service_name, wms_permissions, layers, params, resources, expanded_layers, layer_infos, fetched, info_xml, layer_out, settings, idx, _wms_cache, calls, arg, ret>>

\* trans.rollback(), after the last row
SqlRollback ==
    /\ sql.pc = "rows" /\ sql.cursor = <<>>
    /\ \E raises \in BOOLEAN : sql' = IF raises THEN SqlRaised(sql) ELSE [sql EXCEPT !.pc = "close", !.trans = "rolled_back"]
    /\ UNCHANGED <<pc, service_name, wms_permissions, layers, params, resources, expanded_layers, layer_infos, fetched, info_xml, layer_out, settings, idx, _wms_cache, calls, arg, ret>>

\* conn.close() and return {'features': features}
SqlClose ==
    /\ sql.pc = "close"
    /\ \E raises \in BOOLEAN : sql' = IF raises THEN SqlRaised(sql) ELSE [sql EXCEPT !.pc = "returned", !.conn = "closed", !.result = <<[features |-> sql.features]>>]
    /\ UNCHANGED <<pc, service_name, wms_permissions, layers, params, resources, expanded_layers, layer_infos, fetched, info_xml, layer_out, settings, idx, _wms_cache, calls, arg, ret>>

NextSql == SqlConnect \/ SqlBegin \/ SqlExecute \/ SqlRow \/ SqlRollback \/ SqlClose

SpecSql == InitSql /\ [][NextSql]_vars

----------------------------------------------------------------------------
(* Specification SpecConc: two query() calls of the revision with the      *)
(* prefetch, running as two threads on one FeatureInfoService instance     *)

Threads == {1, 2}

\* fetch_wms_layer_infos: the upstream responses of one call, by layer
Responses(t, expanded) == [l \in Range(expanded) |-> [call |-> t, layer |-> l]]

InitConc ==
    /\ QueryIdle /\ sql = NoSql /\ arg = NoArg /\ ret = NoRet
    /\ _wms_cache = NoCache
    /\ calls \in [Threads -> {[pc |-> "prefetch", layers |-> ls, idx |-> 0, parsed |-> <<>>] : ls \in SeqsUpTo(Leaves, MaxReq)}]

\* self.prefetch_wms_layers(...): self._wms_cache = responses
PrefetchWmsLayers(t) ==
    /\ calls[t].pc = "prefetch"
    /\ _wms_cache' = <<Responses(t, calls[t].layers)>>
    /\ calls' = [calls EXCEPT ![t].pc = "layers", ![t].idx = 1]
    /\ UNCHANGED <<pc, service_name, wms_permissions, layers, params, resources, expanded_layers, layer_infos, fetched, info_xml, layer_out, settings, idx, sql, arg, ret>>

\* get_wms_layer_info: parse_wms_layer_info(self._wms_cache.get(layer), ...);
\* an unset attribute raises AttributeError out of query()
GetWmsLayerInfo(t) ==
    /\ calls[t].pc = "layers" /\ calls[t].idx <= Len(calls[t].layers)
    /\ calls' = IF _wms_cache = NoCache THEN [calls EXCEPT ![t].pc = "raised"]
                ELSE [calls EXCEPT ![t].idx = @ + 1, ![t].parsed = Append(@, IF Has(_wms_cache[1], calls[t].layers[calls[t].idx]) THEN <<_wms_cache[1][calls[t].layers[calls[t].idx]]>> ELSE <<>>)]
    /\ UNCHANGED <<pc, service_name, wms_permissions, layers, params, resources, expanded_layers, layer_infos, fetched, info_xml, layer_out, settings, idx, sql, _wms_cache, arg, ret>>

\* del self._wms_cache, then the document is returned; an unset attribute
\* raises AttributeError out of query()
DelWmsCache(t) ==
    /\ calls[t].pc = "layers" /\ calls[t].idx > Len(calls[t].layers)
    /\ calls' = [calls EXCEPT ![t].pc = IF _wms_cache = NoCache THEN "raised" ELSE "done"]
    /\ _wms_cache' = NoCache
    /\ UNCHANGED <<pc, service_name, wms_permissions, layers, params, resources, expanded_layers, layer_infos, fetched, info_xml, layer_out, settings, idx, sql, arg, ret>>

NextConc == \E t \in Threads : PrefetchWmsLayers(t) \/ GetWmsLayerInfo(t) \/ DelWmsCache(t)

SpecConc == InitConc /\ [][NextConc]_vars

----------------------------------------------------------------------------
(* Claims about one get_layer_info call (SpecLayer) *)

\* the call under check, its provider result and its rendered <Layer>
Returned == pc = "returned"

Fetched == Returned /\ fetched # <<>>

TheInfo == fetched[1].info

TheLayer == layer_out.Layer[1]

ProviderError == Fetched /\ TheInfo.py = "dict" /\ Get(TheInfo.d, "error", "") # ""

\* the attribute names a <Feature> element shows: its <Attribute> elements
\* and the attribute records its HtmlContent was rendered from
ShownAttributes(f) == {f.Attribute[k].attrname : k \in DOMAIN f.Attribute} \cup UNION {Range(f.HtmlContent[k].text.attrs) : k \in DOMAIN f.HtmlContent}

\* C1: every attribute name in the rendered Layer element, for each of the
\* three providers, is in the attribute set layer_permissions returns for
\* the identity and the layer
C1_AttributesPermitted ==
    (Returned /\ layer_out.ret = "Layer") =>
        \A k \in DOMAIN TheLayer.Feature : ShownAttributes(TheLayer.Feature[k]) \subseteq layer_permissions(wms_permissions, layers[1]).attributes

\* C2: a provider result with an error renders a Layer element with exactly
\* one Feature, whose HtmlContent holds the inline error message and which
\* has no attribute, bounding box or geometry, also when the result carries
\* features next to the error
C2_ErrorFeature ==
    ProviderError =>
        /\ layer_out.ret = "Layer"
        /\ Len(TheLayer.Feature) = 1
        /\ TheLayer.Feature[1].HtmlContent = <<[inline |-> "1", text |-> ErrorHtml(TheInfo.d.error)]>>
        /\ TheLayer.Feature[1].Attribute = <<>>
        /\ TheLayer.Feature[1].BoundingBox = <<>>
        /\ TheLayer.Feature[1].geometry = <<>>
        /\ TheLayer.Feature[1].id = ""

\* a module result with an error next to two features, with the HtmlContent
\* switched off by the request
C2_Witness ==
    /\ ProviderError
    /\ fetched[1].type = "module"
    /\ Len(Get(TheInfo.d, "features", <<>>)) = 2
    /\ ~FlagOn(params, "with_htmlcontent", "true")
    /\ Len(TheLayer.Feature) = 1

\* the feature loop ran to its end and the request shows the HtmlContent
LoopRendered == Fetched /\ LoopFeatures(TheInfo) # <<>> /\ layer_out.ret = "Layer" /\ FlagOn(params, "with_htmlcontent", "true")

\* C9: within one layer every feature whose template rendering succeeds gets
\* its own rendered fragment as HtmlContent, also when an earlier feature of
\* the layer produced an error message
C9_SiblingsUnaffected ==
    LoopRendered =>
        \A k \in DOMAIN TheLayer.Feature :
            fetched[1].tpl[k] = "ok" => TheLayer.Feature[k].HtmlContent = <<[inline |-> "1", text |-> RenderedHtml(k, InfoAttributes(LoopFeatures(TheInfo)[k], Get(resources[service_name].layers[layers[1]], "attribute_aliases", <<>>)))]>>

\* the feature template failed, to compile or to render, for some feature
TemplateFailed == Fetched /\ \E k \in DOMAIN LoopFeatures(TheInfo) : fetched[1].tpl[k] # "ok"

\* C10: whatever exception the compilation or the rendering of a feature
\* template raises, get_layer_info returns a Layer element whose feature
\* carries an inline error fragment
C10_TemplateFailureContained ==
    (TemplateFailed /\ Get(params, "LAYERATTRIBS", [json |-> "", obj |-> <<>>]).json # "invalid") =>
        /\ layer_out.ret = "Layer"
        /\ FlagOn(params, "with_htmlcontent", "true") => \E k \in DOMAIN TheLayer.Feature : TheLayer.Feature[k].HtmlContent[1].text.kind = "info_error"

----------------------------------------------------------------------------
(* Claims about query() (Spec) *)

Done == pc = "done"

ServiceKnownAndGranted == service_name \in DOMAIN LoadedResources /\ wms_permissions # <<>>

\* one permitted leaf was requested and its sql or module provider returned
\* exactly one feature with an id and no error
OneFeatureQuery ==
    /\ pc \in {"done", "raised"}
    /\ Len(layers) = 1 /\ layers[1] \in Leaves
    /\ Len(fetched) = 1 /\ fetched[1].type \in {"sql", "module"}
    /\ fetched[1].info.py = "dict" /\ ~Has(fetched[1].info.d, "error")
    /\ Len(LoopFeatures(fetched[1].info)) = 1
    /\ LoopFeatures(fetched[1].info)[1].id # <<>>

\* C4: such a query yields a document with one GetFeatureInfoResponse root,
\* one Layer and in it one Feature whose id is the provider's feature id and
\* which contains exactly one HtmlContent
C4_OneFeatureDocument ==
    OneFeatureQuery =>
        /\ Done
        /\ info_xml.root = "GetFeatureInfoResponse"
        /\ Len(info_xml.Layer) = 1
        /\ Len(info_xml.Layer[1].Feature) = 1
        /\ info_xml.Layer[1].Feature[1].id = ToString(LoopFeatures(fetched[1].info)[1].id[1])
        /\ Len(info_xml.Layer[1].Feature[1].HtmlContent) = 1

\* C5: an unknown service or an identity without a grant for it gets the
\* ServiceExceptionReport MapNotDefined, with no layer resolved, fetched or
\* rendered; in every other case no ServiceExceptionReport is returned
C5_ServiceException ==
    /\ ~ServiceKnownAndGranted =>
          /\ pc \in {"start", "done"}
          /\ idx = 0 /\ expanded_layers = <<>> /\ fetched = <<>> /\ layer_infos = <<>> /\ layer_out = NoLayerOut
          /\ Done => info_xml = [root |-> "ServiceExceptionReport", code |-> "MapNotDefined", Layer |-> <<>>]
    /\ ServiceKnownAndGranted => info_xml.root # "ServiceExceptionReport"
    /\ (Done /\ ServiceKnownAndGranted) => info_xml.root = "GetFeatureInfoResponse"

\* a loaded service asked for by an identity without any grant
C5_Witness == Done /\ service_name = KnownService /\ wms_permissions = <<>> /\ info_xml.root = "ServiceExceptionReport"

\* C6 as stated: the document holds exactly one Layer element for every leaf
\* of the output of expand_group_layers
C6_EveryLeafRendered ==
    (Done /\ info_xml.root = "GetFeatureInfoResponse") => [k \in DOMAIN info_xml.Layer |-> info_xml.Layer[k].layername] = LayerNames(expanded_layers)

RECURSIVE SelectQueryable(_)
\* the resolved layers whose merged queryable flag is true
SelectQueryable(expanded) == IF expanded = <<>> THEN <<>> ELSE (IF layer_permissions(wms_permissions, Head(expanded).layer).queryable THEN <<Head(expanded)>> ELSE <<>>) \o SelectQueryable(Tail(expanded))

RECURSIVE SelectDict(_)
\* the fetches whose provider returned a dict
SelectDict(fs) == IF fs = <<>> THEN <<>> ELSE (IF Head(fs).info.py = "dict" THEN <<Head(fs)>> ELSE <<>>) \o SelectDict(Tail(fs))

\* the terminal state of a rendered layer fits what its provider returned
TerminalState(layerEl, info) ==
    IF Get(info.d, "error", "") # "" THEN Len(layerEl.Feature) = 1 /\ layerEl.Feature[1].HtmlContent[1].text.kind = "info_error"
    ELSE Len(layerEl.Feature) = Len(Get(info.d, "features", <<>>))

\* C6 amended: exactly the queryable leaves are fetched, in resolver order,
\* and the document holds exactly one Layer element, in that order, for each
\* of them whose provider returned a dict, rendered with features, empty or
\* with the error; a leaf that is not queryable or whose module returned no
\* dict has no Layer element
C6_QueryableLeafRendered ==
    (Done /\ info_xml.root = "GetFeatureInfoResponse") =>
        /\ [k \in DOMAIN fetched |-> fetched[k].layer] = LayerNames(SelectQueryable(expanded_layers))
        /\ [k \in DOMAIN info_xml.Layer |-> info_xml.Layer[k].layername] = [k \in DOMAIN SelectDict(fetched) |-> SelectDict(fetched)[k].layer]
        /\ \A k \in DOMAIN info_xml.Layer : TerminalState(info_xml.Layer[k], SelectDict(fetched)[k].info)

\* three resolved leaves: one rendered with a feature, one rendered empty or
\* with an error, and one without a Layer element
C6_Witness ==
    /\ Done /\ Len(expanded_layers) = 3 /\ Len(info_xml.Layer) = 2
    /\ Len(info_xml.Layer[1].Feature) = 1 /\ info_xml.Layer[1].Feature[1].HtmlContent[1].text.kind = "rendered"
    /\ Len(fetched) = 3 /\ fetched[2].info.d = [error |-> "Exception for layer"]

----------------------------------------------------------------------------
(* Claims about concurrent calls (SpecConc) and the database adapter (SpecSql) *)

\* C7: in every interleaving of two query calls on one instance no call
\* fails on the instance's _wms_cache, and every layer of a call is parsed
\* from the upstream response which that same call prefetched
C7_NoSharedState ==
    \A t \in DOMAIN calls :
        /\ calls[t].pc # "raised"
        /\ \A k \in DOMAIN calls[t].parsed : calls[t].parsed[k] = <<[call |-> t, layer |-> calls[t].layers[k]]>>

\* C8: once the connection has been opened, layer_info returns, with
\* features or with an error result, only after the transaction has been
\* rolled back and the connection closed
C8_AlwaysReleased ==
    (sql.pc = "returned" /\ sql.conn # "none") => (sql.conn = "closed" /\ sql.trans # "active")

----------------------------------------------------------------------------
(* Attribute values: parse_value                                           *)
(*                                                                         *)
(* A Python value is a record tagged by py: a str with its text s, an int  *)
(* with v, None, a list with its items, and a dict (an OrderedDict) with   *)
(* its items as a sequence of [key, value] pairs in insertion order.       *)

PyStr(s) == [py |-> "str", s |-> s]

PyList(items) == [py |-> "list", items |-> items]

PyDict(items) == [py |-> "dict", items |-> items]

\* one key of a dict
KV(key, value) == [key |-> key, value |-> value]

\* the raw attribute values under check
RawValues == {"plain", "{\"a\":1}", "{bad", "[bad", "[]", "[1]", "[null]", "[{\"a\":1,\"b\":2}]", "[{\"b\":2,\"a\":1}]", "[{\"c\":3,\"b\":2,\"a\":1}]", "[{\"a\":1},2]", "[{\"b\":2},{\"a\":1},null,{\"c\":3}]"}

\* value.startswith('{') or value.startswith('[')
StartsJson(s) == s \notin {"plain"}

\* json.loads(value, object_pairs_hook=OrderedDict) on the raw values:
\* <<>> when it raises, else the one parsed value
json_loads(s) ==
    CASE s = "{\"a\":1}" -> <<PyDict(<<KV("a", PyInt(1))>>)>>
      [] s = "[]" -> <<PyList(<<>>)>>
      [] s = "[1]" -> <<PyList(<<PyInt(1)>>)>>
      [] s = "[null]" -> <<PyList(<<PyNone>>)>>
      [] s = "[{\"a\":1,\"b\":2}]" -> <<PyList(<<PyDict(<<KV("a", PyInt(1)), KV("b", PyInt(2))>>)>>)>>
      [] s = "[{\"b\":2,\"a\":1}]" -> <<PyList(<<PyDict(<<KV("b", PyInt(2)), KV("a", PyInt(1))>>)>>)>>
      [] s = "[{\"c\":3,\"b\":2,\"a\":1}]" -> <<PyList(<<PyDict(<<KV("c", PyInt(3)), KV("b", PyInt(2)), KV("a", PyInt(1))>>)>>)>>
      [] s = "[{\"a\":1},2]" -> <<PyList(<<PyDict(<<KV("a", PyInt(1))>>), PyInt(2)>>)>>
      [] s = "[{\"b\":2},{\"a\":1},null,{\"c\":3}]" -> <<PyList(<<PyDict(<<KV("b", PyInt(2))>>), PyDict(<<KV("a", PyInt(1))>>), PyNone, PyDict(<<KV("c", PyInt(3))>>)>>)>>
      [] OTHER -> <<>>

\* the keys of an ordered dict, of an alias spec or of a dict's items
Keys(items) == {items[k].key : k \in DOMAIN items}

RECURSIVE WithKey(_, _)
\* the entry of a dict under the key, if there is one
WithKey(items, key) == IF items = <<>> THEN <<>> ELSE IF Head(items).key = key THEN <<Head(items)>> ELSE WithKey(Tail(items), key)

RECURSIVE AliasedFirst(_, _)
\* for key in json_aliases: if key in json_item: item[key] = json_item[key]
AliasedFirst(json_aliases, json_item) ==
    IF json_aliases = <<>> THEN <<>>
    ELSE WithKey(json_item, Head(json_aliases).key) \o AliasedFirst(Tail(json_aliases), json_item)

RECURSIVE Leftover(_, _)
\* for key in json_item: if key not in json_aliases: item[key] = json_item[key]
Leftover(json_aliases, json_item) ==
    IF json_item = <<>> THEN <<>>
    ELSE (IF Head(json_item).key \in Keys(json_aliases) THEN <<>> ELSE <<Head(json_item)>>) \o Leftover(json_aliases, Tail(json_item))

\* the item with only the keys of the alias spec, in alias order
ReorderItemAliasedOnly(json_aliases, json_item) == PyDict(AliasedFirst(json_aliases, json_item.items))

\* one list item reordered: the keys of the alias spec first, then the rest
ReorderItem(json_aliases, json_item) == PyDict(AliasedFirst(json_aliases, json_item.items) \o Leftover(json_aliases, json_item.items))

RECURSIVE ReorderItems(_, _, _)
\* the loop over json_value: value is the list built so far; an item that is
\* not a mapping raises on `key in json_item` and leaves value as it is
ReorderItems(json_aliases, json_value, value) ==
    IF json_value = <<>> THEN PyList(value)
    ELSE IF Head(json_value).py # "dict" THEN PyList(value)
    ELSE ReorderItems(json_aliases, Tail(json_value), Append(value, ReorderItem(json_aliases, Head(json_value))))

\* parse_value(value, json_aliases): json_aliases is <<>> for None or {}
parse_value(value, json_aliases) ==
    IF value.py # "str" \/ ~StartsJson(value.s) THEN value
    ELSE IF json_loads(value.s) = <<>> THEN value
    ELSE IF json_aliases # <<>> /\ json_loads(value.s)[1].py = "list" THEN ReorderItems(json_aliases, json_loads(value.s)[1].items, <<>>)
    ELSE json_loads(value.s)[1]

----------------------------------------------------------------------------
(* Attribute values: render_value                                          *)
(*                                                                         *)
(* The text of a value is a sequence of tokens: a scheme, a run of plain   *)
(* characters, a file extension, or one special character.                 *)

\* the render_value inputs under check
RenderTexts == {
    <<"https://", "x.test/a", ".png">>,
    <<"HTTP://", "x.test/a", ".JPG">>,
    <<"https://", "x.test/a", ".png", "?", "s=1">>,
    <<"https://", "x.test/q?a=1", "&", "f=b", ".bmp">>,
    <<"https://", "x.test/doc">>,
    <<"ftp://", "x.test/a", ".png">>,
    <<"user@example.com">>,
    <<"mailto:", "user@example.com">>,
    <<"mailto:", "nobody">>,
    <<"attachment://", "data/svc", "/", "dir", "/", "file.pdf">>,
    <<"attachment://", "file.pdf">>,
    <<"plain">>,
    <<"a", "\n", "b">>,
    <<"a", "<", "b">>,
    <<"<b>", "bold", "</b>">>,
    <<>>}

\* value begins with a valid HTML tag
BeginsWithTag(tokens) == tokens # <<>> /\ Head(tokens) \in {"<b>", "</b>"}

\* html.escape of one token
EscapeToken(tok) ==
    CASE tok = "&" -> "&amp;"
      [] tok = "<" -> "&lt;"
      [] tok = ">" -> "&gt;"
      [] tok = "<b>" -> "&lt;b&gt;"
      [] tok = "</b>" -> "&lt;/b&gt;"
      [] OTHER -> tok

\* html.escape(value)
HtmlEscape(tokens) == [k \in DOMAIN tokens |-> EscapeToken(tokens[k])]

\* value.replace("\n", "<br />")
BreakLines(tokens) == [k \in DOMAIN tokens |-> IF tokens[k] = "\n" THEN "<br />" ELSE tokens[k]]

\* ^(https?:\/\/.*\.(jpg|jpeg|png|bmp))$ with re.IGNORECASE
MatchesImage(tokens) == Len(tokens) >= 2 /\ Head(tokens) \in {"http://", "https://", "HTTP://", "HTTPS://"} /\ tokens[Len(tokens)] \in {".jpg", ".jpeg", ".png", ".bmp", ".JPG", ".PNG"}

\* ^(https?:\/\/.*)$ with re.IGNORECASE
MatchesLink(tokens) == tokens # <<>> /\ Head(tokens) \in {"http://", "https://", "HTTP://", "HTTPS://"}

\* ^(mailto:)?([\w\-\.]+@([\w-]+\.)+[\w-]{2,63})$
MatchesEmail(tokens) == tokens \in {<<"user@example.com">>, <<"mailto:", "user@example.com">>}

\* ^attachment://(.+)/([^/]+)$
MatchesAttachment(tokens) == Len(tokens) >= 4 /\ Head(tokens) = "attachment://" /\ tokens[Len(tokens) - 1] = "/" /\ tokens[Len(tokens)] # "/"

\* <a href="\1" target="_blank"><img src="\1" /></a>
ImageAnchor(tokens) == <<"<a href=\"">> \o tokens \o <<"\" target=\"_blank\"><img src=\"">> \o tokens \o <<"\" /></a>">>

\* <a href="\1" target="_blank">Link</a>
LinkAnchor(tokens) == <<"<a href=\"">> \o tokens \o <<"\" target=\"_blank\">Link</a>">>

\* <a href="mailto:\2">\2</a>
EmailAnchor(tokens) == <<"<a href=\"mailto:", tokens[Len(tokens)], "\">", tokens[Len(tokens)], "</a>">>

\* <a href="\1/\2" target="_blank"><img src="\1/\2" alt="\2" style="width: 100%" /></a>
AttachmentAnchor(tokens) == <<"<a href=\"">> \o Tail(tokens) \o <<"\" target=\"_blank\"><img src=\"">> \o Tail(tokens) \o <<"\" alt=\"", tokens[Len(tokens)], "\" style=\"width: 100%\" /></a>">>

\* one rule applied to the value: does it match, and what it rewrites to
RuleMatches(rule, tokens) ==
    CASE rule = "image" -> MatchesImage(tokens)
      [] rule = "link" -> MatchesLink(tokens)
      [] rule = "email" -> MatchesEmail(tokens)
      [] rule = "attachment" -> MatchesAttachment(tokens)

RuleExpand(rule, tokens) ==
    CASE rule = "image" -> ImageAnchor(tokens)
      [] rule = "link" -> LinkAnchor(tokens)
      [] rule = "email" -> EmailAnchor(tokens)
      [] rule = "attachment" -> AttachmentAnchor(tokens)

\* the rules with the generic link in front of the image
RenderRulesLinkFirst(transform_image_urls) == <<"link">> \o (IF transform_image_urls THEN <<"image">> ELSE <<>>) \o <<"email", "attachment">>

\* rules = []; rules.append(...)
RenderRules(transform_image_urls) == (IF transform_image_urls THEN <<"image">> ELSE <<>>) \o <<"link", "email", "attachment">>

RECURSIVE ApplyFirstRule(_, _)
\* for rule in rules: if match: value = rule[1](match); break
ApplyFirstRule(rules, tokens) ==
    IF rules = <<>> THEN tokens
    ELSE IF RuleMatches(Head(rules), tokens) THEN RuleExpand(Head(rules), tokens)
    ELSE ApplyFirstRule(Tail(rules), tokens)

\* render_value(value, htmlEscape) of a service with transform_image_urls
render_value(value, htmlEscape, transform_image_urls) ==
    IF value.py # "str" THEN value
    ELSE IF BeginsWithTag(value.tokens) THEN value
    ELSE PyText(ApplyFirstRule(RenderRules(transform_image_urls), BreakLines(IF htmlEscape THEN HtmlEscape(value.tokens) ELSE value.tokens)))

----------------------------------------------------------------------------
(* Specification SpecValue: the functions on attribute values, each called *)
(* once on every input of its bounded set                                  *)

\* the json_attribute_aliases of an attribute: none, or name to alias in order
JsonAliases == {<<>>, <<KV("a", "A")>>, <<KV("b", "B"), KV("a", "A")>>, <<KV("z", "Z")>>}

ParseValueArgs == {[fn |-> "parse_value", value |-> v, json_aliases |-> ja] : v \in {PyStr(s) : s \in RawValues} \cup {PyInt(1), PyNone}, ja \in JsonAliases}

RenderValueArgs == {[fn |-> "render_value", value |-> v, htmlEscape |-> he, transform_image_urls |-> tr] : v \in {PyText(s) : s \in RenderTexts} \cup {PyInt(1), PyNone}, he \in BOOLEAN, tr \in BOOLEAN}

FormattedValueArgs == {[fn |-> "formatted_value", value |-> PyText(s), formatstr |-> f] : s \in FormatTexts, f \in FormatSpecs}

\* the attribute values of the GetFeatureInfo responses of the adapter calls
WmsValues == {"v", "NULL", "2023-02-29", "2024-01-05"}

\* the module settings SKIP_EMPTY_ATTRIBUTES and USE_PERMISSION_ATTRIBUTE_ORDER
WmsSettings == [skip_empty_attributes : BOOLEAN, use_permission_attribute_order : BOOLEAN]

\* responses of one feature with a geometry attribute, derived or not, with
\* an attribute returned twice, and with empty values
WmsGeometryResponses ==
    {[raises |-> FALSE, stage |-> "", Layer |-> [Feature |-> <<[id |-> <<1>>, Attribute |-> attrs, BoundingBox |-> <<"bbox">>]>>, Attribute |-> <<>>]] :
        attrs \in {<<[name |-> "A", value |-> "v", type |-> ""], [name |-> "geometry", value |-> "POINT", type |-> "derived"]>>,
                   <<[name |-> "geometry", value |-> "POINT", type |-> "derived"], [name |-> "b", value |-> "NULL", type |-> ""]>>,
                   <<[name |-> "geometry", value |-> "v", type |-> ""], [name |-> "a", value |-> "v", type |-> ""]>>,
                   <<[name |-> "b", value |-> "v", type |-> ""], [name |-> "A", value |-> "v", type |-> ""], [name |-> "b", value |-> "2024-01-05", type |-> ""]>>,
                   <<[name |-> "b", value |-> "NULL", type |-> ""], [name |-> "a", value |-> "v", type |-> ""], [name |-> "b", value |-> "v", type |-> ""]>>}}

WmsLayerInfoArgs ==
    {[fn |-> "wms_layer_info", response |-> r, permitted_attributes |-> pa, attribute_aliases |-> ("a" :> "A"), attribute_formats |-> af, module_config |-> mc] :
        r \in WmsBackends({1}, UpstreamAttrLists, WmsValues, MaxFeatures) \cup WmsGeometryResponses, pa \in {<<>>, <<"a">>, <<"a", "b">>, <<"geometry", "b", "a">>}, af \in {<<>>, ("b" :> "%Y")}, mc \in WmsSettings}

InitValue ==
    /\ QueryIdle /\ sql = NoSql /\ _wms_cache = NoCache /\ calls = NoCalls
    /\ pc = "idle"
    /\ arg \in ParseValueArgs \cup RenderValueArgs \cup FormattedValueArgs \cup WmsLayerInfoArgs
    /\ ret = NoRet

ParseValue ==
    /\ arg.fn = "parse_value" /\ ret = NoRet
    /\ ret' = <<parse_value(arg.value, arg.json_aliases)>>
    /\ UNCHANGED <<pc, service_name, wms_permissions, layers, params, resources, expanded_layers, layer_infos, fetched, info_xml, layer_out, settings, idx, sql, _wms_cache, calls, arg>>

RenderValue ==
    /\ arg.fn = "render_value" /\ ret = NoRet
    /\ ret' = <<render_value(arg.value, arg.htmlEscape, arg.transform_image_urls)>>
    /\ UNCHANGED <<pc, service_name, wms_permissions, layers, params, resources, expanded_layers, layer_infos, fetched, info_xml, layer_out, settings, idx, sql, _wms_cache, calls, arg>>

FormattedValue ==
    /\ arg.fn = "formatted_value" /\ ret = NoRet
    /\ ret' = <<formatted_value(arg.value, arg.formatstr)>>
    /\ UNCHANGED <<pc, service_name, wms_permissions, layers, params, resources, expanded_layers, layer_infos, fetched, info_xml, layer_out, settings, idx, sql, _wms_cache, calls, arg>>

WmsLayerInfo ==
    /\ arg.fn = "wms_layer_info" /\ ret = NoRet
    /\ ret' = <<wms_layer_info(arg.response, arg.permitted_attributes, arg.attribute_aliases, arg.attribute_formats, arg.module_config)>>
    /\ UNCHANGED <<pc, service_name, wms_permissions, layers, params, resources, expanded_layers, layer_infos, fetched, info_xml, layer_out, settings, idx, sql, _wms_cache, calls, arg>>

NextValue == ParseValue \/ RenderValue \/ FormattedValue \/ WmsLayerInfo

SpecValue == InitValue /\ [][NextValue]_vars

----------------------------------------------------------------------------
(* Claims about the functions on attribute values (SpecValue) *)

ParseReturned == arg.fn = "parse_value" /\ ret # NoRet

\* parsing or re-shaping the value raises: invalid JSON, or aliases are
\* configured and an item of the parsed list is not a mapping
ParseFails ==
    /\ ParseReturned /\ arg.value.py = "str" /\ StartsJson(arg.value.s)
    /\ \/ json_loads(arg.value.s) = <<>>
       \/ /\ arg.json_aliases # <<>> /\ json_loads(arg.value.s)[1].py = "list"
          /\ \E k \in DOMAIN json_loads(arg.value.s)[1].items : json_loads(arg.value.s)[1].items[k].py # "dict"

\* C11: whenever parsing or re-shaping a string value fails, parse_value
\* returns the input string itself, never a partially built list
C11_RawValueKept == ParseFails => ret[1] = arg.value

\* the position of a key in an ordered dict or in an alias spec
IndexOfKey(items, key) == CHOOSE k \in DOMAIN items : items[k].key = key

\* aliases are configured and the value parses to a list of mappings
ParsedListOfDicts ==
    /\ ParseReturned /\ arg.value.py = "str" /\ StartsJson(arg.value.s) /\ arg.json_aliases # <<>>
    /\ json_loads(arg.value.s) # <<>> /\ json_loads(arg.value.s)[1].py = "list"
    /\ \A k \in DOMAIN json_loads(arg.value.s)[1].items : json_loads(arg.value.s)[1].items[k].py = "dict"

\* C16 as stated: [{"a":1,"b":2}] under the alias spec a -> "A" normalizes to
\* [{"A":1,"b":2}], the aliased key appearing under its alias
C16_AliasedKeys ==
    (ParseReturned /\ arg.value = PyStr("[{\"a\":1,\"b\":2}]") /\ arg.json_aliases = <<KV("a", "A")>>) =>
        ret[1] = PyList(<<PyDict(<<KV("A", PyInt(1)), KV("b", PyInt(2))>>)>>)

\* the keys of the alias spec come first in alias-declared order, the
\* leftover keys follow in the order of the input item
ReorderedAs(out, in, json_aliases) ==
    \A i, j \in DOMAIN out : i < j =>
        \/ out[i].key \in Keys(json_aliases) /\ out[j].key \notin Keys(json_aliases)
        \/ out[i].key \in Keys(json_aliases) /\ out[j].key \in Keys(json_aliases) /\ IndexOfKey(json_aliases, out[i].key) < IndexOfKey(json_aliases, out[j].key)
        \/ out[i].key \notin Keys(json_aliases) /\ out[j].key \notin Keys(json_aliases) /\ IndexOfKey(in, out[i].key) < IndexOfKey(in, out[j].key)

\* C16 amended: [{"a":1,"b":2}] under the alias spec a -> "A" normalizes to
\* [{"a":1,"b":2}]; in every list item the keys named in the alias spec come
\* first in alias-declared order, the leftover keys are appended in their
\* original order, every key stays under its own name and every value is
\* unchanged
C16_KeysReordered ==
    /\ (ParseReturned /\ arg.value = PyStr("[{\"a\":1,\"b\":2}]") /\ arg.json_aliases = <<KV("a", "A")>>) =>
          ret[1] = PyList(<<PyDict(<<KV("a", PyInt(1)), KV("b", PyInt(2))>>)>>)
    /\ ParsedListOfDicts =>
          /\ ret[1].py = "list" /\ Len(ret[1].items) = Len(json_loads(arg.value.s)[1].items)
          /\ \A k \in DOMAIN ret[1].items :
                /\ ret[1].items[k].py = "dict"
                /\ Len(ret[1].items[k].items) = Len(json_loads(arg.value.s)[1].items[k].items)
                /\ Range(ret[1].items[k].items) = Range(json_loads(arg.value.s)[1].items[k].items)
                /\ ReorderedAs(ret[1].items[k].items, json_loads(arg.value.s)[1].items[k].items, arg.json_aliases)

\* an item with a leftover key in front, reordered under two aliases
C16_Witness ==
    /\ ParsedListOfDicts
    /\ arg.value = PyStr("[{\"c\":3,\"b\":2,\"a\":1}]") /\ arg.json_aliases = <<KV("b", "B"), KV("a", "A")>>
    /\ ret[1] = PyList(<<PyDict(<<KV("b", PyInt(2)), KV("a", PyInt(1)), KV("c", PyInt(3))>>)>>)

----------------------------------------------------------------------------
(* Specification SpecPerm: layer_permissions on every list of up to        *)
(* MaxGrants grants                                                        *)

\* the entries a grant may hold for layer w
LayerEntries ==
    {("name" :> "w") @@ at @@ ia @@ it @@ q :
        at \in {<<>>, ("attributes" :> {"a"})},
        ia \in {<<>>, ("info_attributes" :> {"b"}), ("info_attributes" :> {})},
        it \in {<<>>, ("info_template" :> TRUE)},
        q \in {<<>>, ("queryable" :> TRUE), ("queryable" :> FALSE)}}

\* grants naming w, grants naming w after another layer, and grants not naming w
PermGrants ==
    {[layers |-> <<e>>] : e \in LayerEntries}
    \cup {[layers |-> <<("name" :> "s") @@ ("attributes" :> {"a", "b"}) @@ ("info_template" :> TRUE), e>>] : e \in {("name" :> "w"), ("name" :> "w") @@ ("attributes" :> {"a"}) @@ ("queryable" :> FALSE)}}
    \cup {[layers |-> <<("name" :> "s") @@ ("attributes" :> {"a", "b"}) @@ ("info_template" :> TRUE)>>], [layers |-> <<>>]}

InitPerm ==
    /\ QueryIdle /\ sql = NoSql /\ _wms_cache = NoCache /\ calls = NoCalls
    /\ arg \in {[fn |-> "layer_permissions", perms |-> ps, layer |-> "w"] : ps \in SeqsUpTo(PermGrants, MaxGrants)}
    /\ ret = NoRet

LayerPermissions ==
    /\ arg.fn = "layer_permissions" /\ ret = NoRet
    /\ ret' = <<layer_permissions(arg.perms, arg.layer)>>
    /\ UNCHANGED <<pc, service_name, wms_permissions, layers, params, resources, expanded_layers, layer_infos, fetched, info_xml, layer_out, settings, idx, sql, _wms_cache, calls, arg>>

NextPerm == LayerPermissions

SpecPerm == InitPerm /\ [][NextPerm]_vars

\* the entries for the layer in the grants of the identity
EntriesFor(perms, layer) == {l \in UNION {Range(perms[p].layers) : p \in DOMAIN perms} : l.name = layer}

\* the permutations of a list of grants
GrantOrders(perms) == {[k \in DOMAIN perms |-> perms[f[k]]] : f \in {g \in [DOMAIN perms -> DOMAIN perms] : \A i, j \in DOMAIN perms : g[i] = g[j] => i = j}}

\* C12: the merge returns the union of the grants' info_attributes (or, in a
\* grant without them, attributes) for the layer, the OR of the
\* info_template flags (absent is false) and the OR of the queryable flags
\* (absent is true); a layer no grant names gets nothing; the result is the
\* same for every order of the grants
C12_PermissionMerge ==
    (arg.fn = "layer_permissions" /\ ret # NoRet) =>
        /\ ret[1].attributes = UNION {IF "info_attributes" \in DOMAIN l THEN l.info_attributes ELSE IF "attributes" \in DOMAIN l THEN l.attributes ELSE {} : l \in EntriesFor(arg.perms, arg.layer)}
        /\ ret[1].info_template = (\E l \in EntriesFor(arg.perms, arg.layer) : "info_template" \in DOMAIN l /\ l.info_template)
        /\ ret[1].queryable = (\E l \in EntriesFor(arg.perms, arg.layer) : "queryable" \in DOMAIN l => l.queryable)
        /\ EntriesFor(arg.perms, arg.layer) = {} => ret[1] = [attributes |-> {}, info_template |-> FALSE, queryable |-> FALSE]
        /\ \A ps \in GrantOrders(arg.perms) : layer_permissions(ps, arg.layer) = ret[1]

\* two grants for the layer: the first with info_attributes next to attributes
\* and not queryable, the second with attributes only and no flag
C12_Witness ==
    /\ arg.fn = "layer_permissions" /\ ret # NoRet /\ Len(arg.perms) = 2
    /\ arg.perms[1].layers = <<("name" :> "w") @@ ("attributes" :> {"a"}) @@ ("info_attributes" :> {}) @@ ("queryable" :> FALSE)>>
    /\ arg.perms[2].layers = <<("name" :> "s") @@ ("attributes" :> {"a", "b"}) @@ ("info_template" :> TRUE), ("name" :> "w")>>
    /\ ret[1] = [attributes |-> {}, info_template |-> FALSE, queryable |-> TRUE]

----------------------------------------------------------------------------
(* Further claims about the layer resolver (SpecExpand) *)

Expanded == pc = "expanded"

\* C13: expand_group_layers returns a list for every request; every element
\* of it is a permitted name that is not a group, and the requested names
\* that are not permitted are left out without any other effect on the list
C13_OnlyPermittedLeaves ==
    Expanded =>
        /\ \A k \in DOMAIN expanded_layers : expanded_layers[k].layer \in Permitted /\ expanded_layers[k].layer \notin DOMAIN GroupLayers
        /\ LayerNames(expanded_layers) = LayerNames(expand_group_layers(SelectIn(layers, Permitted), <<>>, GroupLayers, Permitted))
        /\ (\A k \in DOMAIN layers : layers[k] \notin Permitted) => expanded_layers = <<>>

\* a request of a name that is not permitted followed by a permitted group
\* with a permitted and a forbidden child
C13_Witness ==
    /\ Expanded /\ Len(layers) = 2 /\ layers[1] \in Leaves \ Permitted /\ layers[2] = "g"
    /\ Permitted = {"g", "w"} /\ expanded_layers # <<>>

----------------------------------------------------------------------------
(* Further claims about query() (Spec) *)

RECURSIVE DepthFirstLeaves(_)
\* the names with every permitted group replaced in place by the leaves below
\* it in child declaration order, names that are not permitted left out
DepthFirstLeaves(names) ==
    IF names = <<>> THEN <<>>
    ELSE (IF Head(names) \notin Permitted THEN <<>>
          ELSE IF Head(names) \in DOMAIN GroupLayers THEN DepthFirstLeaves(GroupLayers[Head(names)])
          ELSE <<Head(names)>>) \o DepthFirstLeaves(Tail(names))

RECURSIVE IsOrderedSelection(_, _)
\* sub is full with some elements left out, the others in the same order
IsOrderedSelection(sub, full) ==
    IF sub = <<>> THEN TRUE
    ELSE IF full = <<>> THEN FALSE
    ELSE IF Head(sub) = Head(full) THEN IsOrderedSelection(Tail(sub), Tail(full))
    ELSE IsOrderedSelection(sub, Tail(full))

\* the layername of every <Layer> of the document
DocumentLayers == [k \in DOMAIN info_xml.Layer |-> info_xml.Layer[k].layername]

\* C14: the Layer elements of the document are in the order of the output of
\* expand_group_layers, which is the order of the requested names with every
\* group replaced in place by its permitted leaves, depth first in child
\* declaration order, whatever provider serves a layer
C14_DocumentOrder ==
    /\ (ServiceKnownAndGranted /\ pc \in {"layers", "done", "raised"}) => LayerNames(expanded_layers) = DepthFirstLeaves(layers)
    /\ (Done /\ info_xml.root = "GetFeatureInfoResponse") => IsOrderedSelection(DocumentLayers, LayerNames(expanded_layers))
    /\ pc = "layers" => [k \in DOMAIN fetched |-> fetched[k].layer] = LayerNames(SelectQueryable(SubSeq(expanded_layers, 1, idx - 1)))

\* the request [m, w], against the declaration order w, s, m below the
\* group g, answered by a module and a WMS
C14_Witness ==
    /\ Done /\ layers = <<"m", "w">> /\ DocumentLayers = <<"m", "w">>
    /\ [k \in DOMAIN fetched |-> fetched[k].type] = <<"module", "wms">>

\* C15: request processing never modifies the loaded configuration: in every
\* state of a query, resources, the contents of every layer's info_template
\* entry included, is what load_resources returned
C15_ResourcesUnchanged == resources = LoadedResources

----------------------------------------------------------------------------
(* Claims about render_value (SpecValue) *)

\* render_value returned for a string that does not begin with an HTML tag
RenderedText == arg.fn = "render_value" /\ ret # NoRet /\ arg.value.py = "str" /\ ~BeginsWithTag(arg.value.tokens)

\* the value the rules are tried on: escaped if asked, line breaks replaced
RuleInput == BreakLines(IF arg.htmlEscape THEN HtmlEscape(arg.value.tokens) ELSE arg.value.tokens)

\* the text is an http(s) URL, and one that ends in an image extension
IsHttpUrl(tokens) == tokens # <<>> /\ tokens[1] \in {"http://", "https://", "HTTP://", "HTTPS://"}

IsImageUrl(tokens) == IsHttpUrl(tokens) /\ Len(tokens) >= 2 /\ tokens[Len(tokens)] \in {".jpg", ".jpeg", ".png", ".bmp", ".JPG", ".PNG"}

\* C17: render_value applies at most one rewrite rule, the first matching
\* one in the order image URL (only with the image transform enabled),
\* http(s) URL, e-mail address, attachment reference; an image URL becomes
\* the anchor around an img tag with the transform enabled, never the
\* 'Link' anchor, and the 'Link' anchor with the transform disabled
C17_FirstRuleOnly ==
    RenderedText =>
        /\ ret[1].py = "str"
        /\ RuleInput = <<>> => ret[1].tokens = <<>>
        /\ RuleInput # <<>> =>
              /\ ret[1].tokens \in {RuleInput, ImageAnchor(RuleInput), LinkAnchor(RuleInput), EmailAnchor(RuleInput), AttachmentAnchor(RuleInput)}
              /\ (IsImageUrl(RuleInput) /\ arg.transform_image_urls) => (ret[1].tokens = ImageAnchor(RuleInput) /\ ret[1].tokens # LinkAnchor(RuleInput))
              /\ (IsImageUrl(RuleInput) /\ ~arg.transform_image_urls) => ret[1].tokens = LinkAnchor(RuleInput)
              /\ (IsHttpUrl(RuleInput) /\ ~IsImageUrl(RuleInput)) => ret[1].tokens = LinkAnchor(RuleInput)
              /\ ret[1].tokens = ImageAnchor(RuleInput) => (arg.transform_image_urls /\ IsImageUrl(RuleInput))
              /\ ret[1].tokens = EmailAnchor(RuleInput) => ~IsHttpUrl(RuleInput)
              /\ ret[1].tokens = AttachmentAnchor(RuleInput) => (~IsHttpUrl(RuleInput) /\ ~MatchesEmail(RuleInput))

\* an image URL with a query separator, escaped, with the transform enabled
C17_Witness ==
    /\ RenderedText /\ arg.transform_image_urls /\ arg.htmlEscape
    /\ arg.value.tokens = <<"https://", "x.test/q?a=1", "&", "f=b", ".bmp">>
    /\ ret[1].tokens = ImageAnchor(<<"https://", "x.test/q?a=1", "&amp;", "f=b", ".bmp">>)

----------------------------------------------------------------------------
(* Claims about formatted_value (SpecValue) *)

\* formatted_value was called without a format specifier
FormattedByDefault == arg.fn = "formatted_value" /\ ret # NoRet /\ arg.formatstr = ""

\* the text has the form YYYY-MM-DD
HasDateForm(tokens) == Len(tokens) = 5 /\ tokens[1] \in FourDigits /\ tokens[3] \in TwoDigits /\ tokens[5] \in TwoDigits /\ tokens[2] = "-" /\ tokens[4] = "-"

\* C18: without a format specifier a string of the form YYYY-MM-DD is
\* returned as day.month.year ("2024-01-05" gives "05.01.2024"), the string
\* NULL is returned as "-", and a string matching no rule is returned
\* unchanged
C18_DefaultFormats ==
    FormattedByDefault =>
        /\ arg.value.tokens = <<"2024", "-", "01", "-", "05">> => ret[1] = PyText(<<"05", ".", "01", ".", "2024">>)
        /\ HasDateForm(arg.value.tokens) => ret[1] = PyText(<<arg.value.tokens[5], ".", arg.value.tokens[3], ".", arg.value.tokens[1]>>)
        /\ arg.value.tokens = <<"NULL">> => ret[1] = PyText(<<"-">>)
        /\ (\A k \in DOMAIN ConversionRules : ~ConversionMatches(ConversionRules[k], arg.value.tokens)) => ret[1] = arg.value

----------------------------------------------------------------------------
(* Claims about the WMS adapter (SpecValue) *)

\* the WMS adapter was called and has returned
WmsReturned == arg.fn = "wms_layer_info" /\ ret # NoRet

\* the attribute element is one the adapter formats: every attribute of a
\* raster layer, and of a feature the permitted ones that are not skipped
IsFormatted(el, vector) ==
    \/ ~vector
    \/ /\ Get(AliasAttributes(arg.attribute_aliases), el.name, el.name) \in Range(arg.permitted_attributes)
       /\ ~(el.value \in {"", "NULL", "null"} /\ arg.module_config.skip_empty_attributes)

\* an exception is raised inside the adapter: while the access token is
\* created, by the request, by the XML parse, or by formatted_value on a
\* value that has the form of a date and is none
ExceptionInAdapter ==
    \/ arg.response.stage \in WmsStages
    \/ \E k \in DOMAIN arg.response.Layer.Feature : \E j \in DOMAIN arg.response.Layer.Feature[k].Attribute :
         /\ arg.response.Layer.Feature[k].Attribute[j].value = "2023-02-29"
         /\ IsFormatted(arg.response.Layer.Feature[k].Attribute[j], TRUE)
    \/ /\ arg.response.Layer.Feature = <<>>
       /\ \E j \in DOMAIN arg.response.Layer.Attribute : arg.response.Layer.Attribute[j].value = "2023-02-29"

\* C19: the WMS adapter never raises; an exception raised while the
\* credentials are created, during the request, the XML parse, the attribute
\* filtering or the value formatting gives a result with 'error' and without
\* 'features', and without an exception the result has 'features' only
C19_WmsNeverRaises ==
    WmsReturned =>
        /\ ExceptionInAdapter => DOMAIN ret[1] = {"error"}
        /\ ~ExceptionInAdapter => DOMAIN ret[1] = {"features"}

\* formatting raised on the second feature, after the first one was collected
C19_Witness ==
    /\ WmsReturned /\ ExceptionInAdapter /\ DOMAIN ret[1] = {"error"}
    /\ arg.response.stage = ""
    /\ Len(arg.response.Layer.Feature) = 2
    /\ arg.permitted_attributes = <<"a", "b">>
    /\ \A j \in DOMAIN arg.response.Layer.Feature[1].Attribute : arg.response.Layer.Feature[1].Attribute[j].value = "v"
    /\ \E j \in DOMAIN arg.response.Layer.Feature[2].Attribute : arg.response.Layer.Feature[2].Attribute[j].value = "2023-02-29"

----------------------------------------------------------------------------
(* Claims about the custom module dispatch (SpecLayer) *)

\* the custom module of the layer failed: its import, the lookup of its
\* layer_info function, or the call
ModuleFailed == Fetched /\ fetched[1].type = "module" /\ fetched[1].outcome \in {"ImportError", "AttributeError", "Exception"}

\* the error message get_layer_info builds for the failure
ModuleErrorMsg(outcome) ==
    CASE outcome = "ImportError" -> "ImportError for layer"
      [] outcome = "AttributeError" -> "AttributeError for layer"
      [] outcome = "Exception" -> "Exception in custom info module"

\* C20: a custom module whose import fails, which has no layer_info, or
\* whose call raises gives an error result that is rendered as the layer's
\* one error feature; get_layer_info returns the Layer element and raises
\* nothing
C20_ModuleFailureContained ==
    ModuleFailed =>
        /\ TheInfo = [py |-> "dict", d |-> [error |-> ModuleErrorMsg(fetched[1].outcome)]]
        /\ layer_out.ret = "Layer"
        /\ Len(TheLayer.Feature) = 1
        /\ TheLayer.Feature[1].HtmlContent = <<[inline |-> "1", text |-> ErrorHtml(ModuleErrorMsg(fetched[1].outcome))]>>
        /\ TheLayer.Feature[1].Attribute = <<>>

\* the call of the module's layer_info raised and the layer shows the error
C20_Witness ==
    /\ ModuleFailed /\ fetched[1].outcome = "Exception"
    /\ layers = <<"m">>
    /\ layer_out.ret = "Layer" /\ Len(TheLayer.Feature) = 1

----------------------------------------------------------------------------
(* Specification SpecLoad: load_resources / collect_layers on every layer  *)
(* tree of up to MaxDepth nested groups, each group hiding its sublayers   *)
(* or not.  The group of level k is named g<k> and its own leaf l<k>.      *)

\* a dict without keys (in load_resources)
EmptyDict == [k \in {} |-> ""]

\* {key: value} if the condition holds, else no key
Opt(cond, key, value) == IF cond THEN (key :> value) ELSE EmptyDict

\* d[key] = value
DictPut(d, key, value) == (key :> value) @@ d

\* a leaf of the configured tree: its attributes a (alias A, format %Y) and b
ConfigLeaf(k) ==
    [name |-> "l" \o ToString(k),
     attributes |-> <<[name |-> "a", alias |-> "A", format |-> "%Y"], [name |-> "b", format_base64 |-> "JWQ="]>>]

\* a group of the configured tree, with or without hide_sublayers
ConfigGroup(k, hide, sublayers) == [name |-> "g" \o ToString(k), layers |-> sublayers] @@ Opt(hide, "hide_sublayers", TRUE)

RECURSIVE ConfigTrees(_, _)
\* the trees rooted at the group of level k with d nested group levels: the
\* innermost group holds its leaf, an outer group its subgroup and possibly
\* its own leaf before or after it
ConfigTrees(k, d) ==
    IF d = 1 THEN {ConfigGroup(k, hide, <<ConfigLeaf(k)>>) : hide \in BOOLEAN}
    ELSE UNION {{ConfigGroup(k, hide, <<sub>>), ConfigGroup(k, hide, <<ConfigLeaf(k), sub>>), ConfigGroup(k, hide, <<sub, ConfigLeaf(k)>>)} :
                    hide \in BOOLEAN, sub \in ConfigTrees(k + 1, d - 1)}

\* wms['root_layer'] of the service: one leaf, or a tree of groups
RootLayers == {ConfigLeaf(0)} \cup UNION {ConfigTrees(1, d) : d \in 1..MaxDepth}

\* b64decode(base64_value, default): the decoded text, or the default
b64decode(base64_value, default) == IF base64_value = "JWQ=" THEN "%d" ELSE default

\* parent_group as the nested group sets it, whatever it was
FacadeForInnermost(layer, parent_group) == IF Get(layer, "hide_sublayers", FALSE) THEN layer.name ELSE parent_group

\* if layer.get('hide_sublayers', False) and parent_group is None:
\*     parent_group = layer['name']          (None is "")
FacadeFor(layer, parent_group) == IF Get(layer, "hide_sublayers", FALSE) /\ parent_group = "" THEN layer.name ELSE parent_group

\* the names of the attributes that carry the key
AttrsWith(attrs, key) == {attrs[k].name : k \in {j \in DOMAIN attrs : Get(attrs[j], key, "") # ""}}

\* attribute_formats: format, else the decoded format_base64 where it decodes
AttributeFormats(attrs) ==
    LET fmt(a) == IF Get(a, "format", "") # "" THEN a.format
                  ELSE IF Get(a, "format_base64", "") # "" THEN b64decode(a.format_base64, "") ELSE ""
        named == {k \in DOMAIN attrs : fmt(attrs[k]) # ""}
    IN  [n \in {attrs[k].name : k \in named} |-> fmt(attrs[CHOOSE k \in named : attrs[k].name = n /\ \A j \in named : attrs[j].name = n => j <= k])]

\* the config of a leaf: title and attributes, and the optional keys
LayerConfig(layer, parent_group) ==
    LET attrs == Get(layer, "attributes", <<>>)
        attribute_aliases == [n \in AttrsWith(attrs, "alias") |-> (CHOOSE a \in Range(attrs) : a.name = n /\ Get(a, "alias", "") # "").alias]
        attribute_formats == AttributeFormats(attrs)
    IN  [title |-> Get(layer, "title", layer.name), attributes |-> [k \in DOMAIN attrs |-> attrs[k].name]]
        @@ Opt(Has(layer, "info_template"), "info_template", Get(layer, "info_template", ""))
        @@ Opt(DOMAIN attribute_aliases # {}, "attribute_aliases", attribute_aliases)
        @@ Opt(DOMAIN attribute_formats # {}, "attribute_formats", attribute_formats)
        @@ Opt(Has(layer, "display_field"), "display_field", Get(layer, "display_field", ""))
        @@ Opt(Has(layer, "feature_report"), "feature_report", Get(layer, "feature_report", ""))
        @@ Opt(parent_group # "", "parent_facade", parent_group)

RECURSIVE collect_layers(_, _, _)
RECURSIVE CollectSublayers(_, _, _)
\* for sublayer in layer['layers']: self.collect_layers(sublayer, ...)
CollectSublayers(sublayers, acc, parent_group) ==
    IF sublayers = <<>> THEN acc
    ELSE CollectSublayers(Tail(sublayers), collect_layers(Head(sublayers), acc, parent_group), parent_group)

\* collect_layers(layer, layers, group_layers, parent_group): the two lookups
\* (acc) after the call
collect_layers(layer, acc, parent_group) ==
    IF Get(layer, "layers", <<>>) # <<>>
    THEN LET collected == CollectSublayers(layer.layers, acc, FacadeFor(layer, parent_group))
         IN  [collected EXCEPT !.group_layers = DictPut(@, layer.name, [k \in DOMAIN layer.layers |-> layer.layers[k].name])]
    ELSE [acc EXCEPT !.layers = DictPut(@, layer.name, LayerConfig(layer, parent_group))]

\* load_resources for one service with the root layer
load_resources(root_layer) == (KnownService :> collect_layers(root_layer, [layers |-> EmptyDict, group_layers |-> EmptyDict], ""))

InitLoad ==
    /\ pc = "idle" /\ service_name = KnownService /\ resources = EmptyDict /\ settings = DefaultSettings
    /\ layers = <<>> /\ params = <<>> /\ wms_permissions = <<>> /\ expanded_layers = <<>> /\ layer_infos = <<>>
    /\ fetched = <<>> /\ info_xml = NoDocument /\ layer_out = NoLayerOut /\ idx = 0
    /\ sql = NoSql /\ _wms_cache = NoCache /\ calls = NoCalls
    /\ arg \in {[fn |-> "load_resources", root_layer |-> r] : r \in RootLayers}
    /\ ret = NoRet

\* FeatureInfoService.__init__: self.resources = self.load_resources(config)
LoadResources ==
    /\ arg.fn = "load_resources" /\ pc = "idle"
    /\ resources' = load_resources(arg.root_layer)
    /\ pc' = "loaded"
    /\ UNCHANGED <<service_name, wms_permissions, layers, params, expanded_layers, layer_infos, fetched, info_xml, layer_out, settings, idx, sql, _wms_cache, calls, arg, ret>>

NextLoad == LoadResources

SpecLoad == InitLoad /\ [][NextLoad]_vars

RECURSIVE GroupsAbove(_, _)
\* the groups on the path from the layer down to the leaf of that name, from
\* the outermost to the innermost; no group where the leaf is not below
GroupsAbove(layer, leaf) ==
    IF Get(layer, "layers", <<>>) = <<>> THEN <<>>
    ELSE IF \E k \in DOMAIN layer.layers : layer.layers[k].name = leaf /\ ~Has(layer.layers[k], "layers") THEN <<layer>>
    ELSE LET below == {k \in DOMAIN layer.layers : GroupsAbove(layer.layers[k], leaf) # <<>>}
         IN  IF below = {} THEN <<>> ELSE <<layer>> \o GroupsAbove(layer.layers[CHOOSE k \in below : TRUE], leaf)

RECURSIVE SelectHidden(_)
\* the groups of the list that hide their sublayers
SelectHidden(groups) == IF groups = <<>> THEN <<>> ELSE (IF Get(Head(groups), "hide_sublayers", FALSE) THEN <<Head(groups)>> ELSE <<>>) \o SelectHidden(Tail(groups))

\* the hidden groups above a collected leaf, outermost first
HiddenAbove(leaf) == SelectHidden(GroupsAbove(arg.root_layer, leaf))

Loaded == arg.fn = "load_resources" /\ pc = "loaded"

\* C21: a leaf below groups with hide_sublayers gets the name of the
\* innermost such group as its parent_facade, and a leaf below none has no
\* parent_facade
C21_InnermostFacade ==
    Loaded => \A leaf \in DOMAIN resources[KnownService].layers :
        LET hidden == HiddenAbove(leaf)
            config == resources[KnownService].layers[leaf]
        IN  IF hidden = <<>> THEN ~Has(config, "parent_facade")
            ELSE Has(config, "parent_facade") /\ config.parent_facade = hidden[Len(hidden)].name

\* C21 amended: a leaf below groups with hide_sublayers gets the name of the
\* outermost such group as its parent_facade (a nested hidden group does not
\* override it), and a leaf below none has no parent_facade
C21_OutermostFacade ==
    Loaded => \A leaf \in DOMAIN resources[KnownService].layers :
        LET hidden == HiddenAbove(leaf)
            config == resources[KnownService].layers[leaf]
        IN  IF hidden = <<>> THEN ~Has(config, "parent_facade")
            ELSE Has(config, "parent_facade") /\ config.parent_facade = hidden[1].name

\* a leaf under two nested hidden groups, below a group that hides nothing
C21_Witness ==
    /\ Loaded
    /\ \E leaf \in DOMAIN resources[KnownService].layers :
         /\ Len(GroupsAbove(arg.root_layer, leaf)) = 3 /\ Len(HiddenAbove(leaf)) = 2
         /\ resources[KnownService].layers[leaf].parent_facade = "g2"

----------------------------------------------------------------------------
(* Further claims about expand_group_layers (SpecExpand) *)

\* requested_styles[k], or the empty string past the end of the list
StyleOfEntry(k) == IF k <= Len(RequestedStyles(params)) THEN RequestedStyles(params)[k] ELSE ""

RECURSIVE StyledLeaves(_)
\* the leaves of the requested entries k, k+1, ... each with the style of the
\* entry it comes from
StyledLeaves(k) ==
    IF k > Len(layers) THEN <<>>
    ELSE [j \in DOMAIN DepthFirstLeaves(<<layers[k]>>) |-> [layer |-> DepthFirstLeaves(<<layers[k]>>)[j], style |-> StyleOfEntry(k)]] \o StyledLeaves(k + 1)

\* C22: every leaf emitted by expand_group_layers carries the style at the
\* index of the requested entry it was expanded from, or the empty string
\* when the styles list is shorter, at every nesting depth; an entry that is
\* not permitted does not shift the styles of the entries after it
C22_EntryStyle == Expanded => expanded_layers = StyledLeaves(1)

\* a name that is not permitted with a style, then the group g without one:
\* the leaf two groups down has the empty style
C22_Witness ==
    /\ Expanded /\ Len(layers) = 2 /\ layers[1] \notin Permitted /\ layers[2] = "g"
    /\ RequestedStyles(params) = <<"st", "">>
    /\ \E k \in DOMAIN expanded_layers : expanded_layers[k] = [layer |-> "s", style |-> ""]

----------------------------------------------------------------------------
(* Further claims about parse_value (SpecValue) *)

\* the value parses as JSON, to the value Parsed
ParsesAsJson == ParseReturned /\ arg.value.py = "str" /\ StartsJson(arg.value.s) /\ json_loads(arg.value.s) # <<>>

Parsed == json_loads(arg.value.s)[1]

\* C23: for a JSON list and a non-empty alias spec every item that is a
\* mapping is rebuilt in its place with exactly its key set, the keys of the
\* alias spec first in alias-spec order, then the remaining keys in the
\* source item's order, each with its original value; a JSON object, or a
\* list without alias spec, is returned as parsed
C23_EveryItemRebuilt ==
    /\ (ParsesAsJson /\ Parsed.py = "list" /\ arg.json_aliases # <<>>) =>
          /\ ret[1].py = "list"
          /\ \A k \in DOMAIN Parsed.items : Parsed.items[k].py = "dict" =>
                /\ k \in DOMAIN ret[1].items
                /\ ret[1].items[k].py = "dict"
                /\ Range(ret[1].items[k].items) = Range(Parsed.items[k].items)
                /\ Len(ret[1].items[k].items) = Len(Parsed.items[k].items)
                /\ ReorderedAs(ret[1].items[k].items, Parsed.items[k].items, arg.json_aliases)
    /\ (ParsesAsJson /\ (Parsed.py # "list" \/ arg.json_aliases = <<>>)) => ret[1] = Parsed

----------------------------------------------------------------------------
(* Further claims about the WMS adapter (SpecValue) *)

\* the adapter returned the features of a vector layer
VectorParsed == WmsReturned /\ Has(ret[1], "features") /\ arg.response.Layer.Feature # <<>>

RECURSIVE Dedup(_)
\* a list without the later occurrences of its elements
Dedup(s) == IF s = <<>> THEN <<>> ELSE LET front == Dedup(SubSeq(s, 1, Len(s) - 1)) IN IF s[Len(s)] \in Range(front) THEN front ELSE Append(front, s[Len(s)])

RECURSIVE SelectKept(_)
\* the <Attribute> elements that stay attributes: not an empty value while
\* empty values are skipped, and not the derived geometry when geometry is
\* a permitted name
SelectKept(attrEls) ==
    IF attrEls = <<>> THEN <<>>
    ELSE LET el == Head(attrEls)
             name == Get(AliasAttributes(arg.attribute_aliases), el.name, el.name)
             dropped == \/ el.value \in {"", "NULL", "null"} /\ arg.module_config.skip_empty_attributes
                        \/ name = "geometry" /\ el.type = "derived"
         IN  (IF name \in Range(arg.permitted_attributes) /\ dropped THEN <<>> ELSE <<el>>) \o SelectKept(Tail(attrEls))

\* the names the backend returned for the elements, aliases looked up
BackendNames(attrEls) == [j \in DOMAIN attrEls |-> Get(AliasAttributes(arg.attribute_aliases), attrEls[j].name, attrEls[j].name)]

\* the permitted ones among the names, in the order the flag asks for
PermittedInOrder(names) ==
    IF arg.module_config.use_permission_attribute_order THEN SelectIn(arg.permitted_attributes, Range(names))
    ELSE Dedup(SelectIn(names, Range(arg.permitted_attributes)))

RECURSIVE NonEmpty(_)
\* the lists of a list that are not empty
NonEmpty(lists) == IF lists = <<>> THEN <<>> ELSE (IF Head(lists) = <<>> THEN <<>> ELSE <<Head(lists)>>) \o NonEmpty(Tail(lists))

\* the attribute names of every emitted feature
EmittedNames == [k \in DOMAIN ret[1].features |-> [j \in DOMAIN ret[1].features[k].attributes |-> ret[1].features[k].attributes[j].name]]

\* C24: the attribute names emitted for a vector feature are exactly the
\* names the backend returned, aliases looked up, that are permitted, each
\* once, in the order of the permitted list with the permission-order flag
\* and else in the order the backend returned them
C24_PermittedNames ==
    VectorParsed => EmittedNames = NonEmpty([k \in DOMAIN arg.response.Layer.Feature |-> PermittedInOrder(BackendNames(arg.response.Layer.Feature[k].Attribute))])

\* C24 amended: the same for the names the backend returned with a value
\* that is kept: an empty, NULL or null value is left out when empty
\* attributes are skipped, and a permitted attribute geometry of type derived
\* becomes the feature's geometry, not an attribute; a feature with no
\* attribute left is not emitted
C24_PermittedKeptNames ==
    VectorParsed => EmittedNames = NonEmpty([k \in DOMAIN arg.response.Layer.Feature |-> PermittedInOrder(BackendNames(SelectKept(arg.response.Layer.Feature[k].Attribute)))])

\* b is returned before the alias of a and once more, the permitted list has
\* a after b after geometry, and the flag asks for the permitted order
C24_Witness ==
    /\ VectorParsed /\ arg.module_config.use_permission_attribute_order
    /\ arg.permitted_attributes = <<"geometry", "b", "a">>
    /\ BackendNames(arg.response.Layer.Feature[1].Attribute) = <<"b", "a", "b">>
    /\ arg.module_config.skip_empty_attributes /\ arg.response.Layer.Feature[1].Attribute[1].value = "NULL"
    /\ EmittedNames = <<<<"b", "a">>>>

----------------------------------------------------------------------------
(* Further claims about the database adapter (SpecSql) *)

\* the adapter has bound the parameters of the info query
SqlBound == sql.sql_params # <<>>

\* C25: geom is the caller's filter_geom when that is not empty and else the
\* point built from x and y; srid is the integer after the last colon of the
\* CRS, or 2056 when that part is no integer; x, y, geom and srid are the
\* computed values also when the caller passes parameters of these names,
\* and the caller's other parameters are bound as they are
C25_BoundParameters ==
    SqlBound =>
        /\ sql.sql_params.geom = (IF "filter_geom" \in DOMAIN sql.call.params /\ sql.call.params.filter_geom # "" THEN sql.call.params.filter_geom ELSE "POINT(1 2)")
        /\ sql.call.crs \in {<<"EPSG", "2056">>, <<"CRS84">>, <<"EPSG", "">>} => sql.sql_params.srid = 2056
        /\ sql.call.crs \in {<<"EPSG", "4326">>, <<"4326">>} => sql.sql_params.srid = 4326
        /\ sql.call.crs = <<"urn", "ogc", "def", "crs", "EPSG", "", "3857">> => sql.sql_params.srid = 3857
        /\ sql.sql_params.x = sql.call.x /\ sql.sql_params.y = sql.call.y
        /\ \A key \in DOMAIN sql.call.params \ {"x", "y", "geom", "srid"} : sql.sql_params[key] = sql.call.params[key]
        /\ DOMAIN sql.sql_params = DOMAIN sql.call.params \cup {"x", "y", "geom", "srid"}

\* the caller passes its own geom and srid and no filter_geom, with a CRS
\* whose last part is no integer
C25_Witness ==
    /\ SqlBound /\ sql.pc = "rows"
    /\ sql.call.params = ("geom" :> "LINESTRING(0 0,1 1)") @@ ("srid" :> 1) /\ sql.call.crs = <<"CRS84">>
    /\ sql.sql_params.geom = "POINT(1 2)" /\ sql.sql_params.srid = 2056

----------------------------------------------------------------------------
(* Further claims about formatted_value (SpecValue) *)

\* formatted_value was called on the raw string NULL
NullFormatted == arg.fn = "formatted_value" /\ ret # NoRet /\ arg.value.tokens = <<"NULL">>

\* C26: the raw string NULL is returned as the string "-" whatever the
\* format specifier: none, a numeric format, a format with width or
\* alignment, or a JSON lookup table
C26_NoneShownAsDash == NullFormatted => ret[1] = PyText(<<"-">>)

----------------------------------------------------------------------------
(* Specification SpecStack: expand_group_layers call by call.  calls is the *)
(* stack of its frames, each with its arguments, the index i of its loop    *)
(* and its own expanded_layers; the configuration is one of the collected   *)
(* trees of SpecLoad.                                                       *)

\* a frame of expand_group_layers at the start of its loop
Frame(requested_layers, requested_styles) == [requested_layers |-> requested_layers, requested_styles |-> requested_styles, i |-> 1, expanded_layers |-> <<>>]

\* a call that goes through one more frame for every group
PushFrameWrapped(stack, frame) == Append(Append(stack, Frame(<<>>, <<>>)), frame)

\* self.expand_group_layers(sublayers, sublayer_styles, ...): one more frame
PushFrame(stack, frame) == Append(stack, frame)

\* the frame on top and the entry its loop is at
TopFrame == calls[Len(calls)]

InLoop == pc = "expanding" /\ calls # <<>> /\ TopFrame.i <= Len(TopFrame.requested_layers)

TopLayer == TopFrame.requested_layers[TopFrame.i]

TopStyle == IF TopFrame.i <= Len(TopFrame.requested_styles) THEN TopFrame.requested_styles[TopFrame.i] ELSE ""

\* the top frame replaced
WithTop(frame) == [calls EXCEPT ![Len(calls)] = frame]

\* the names of a collected configuration
ConfiguredNames(res) == DOMAIN res[KnownService].layers \cup DOMAIN res[KnownService].group_layers

\* the requests: one configured or unknown name, or a group and a name
StackRequests(res) == {<<n>> : n \in ConfiguredNames(res) \cup {UnknownLayer}} \cup {<<g, n>> : g \in DOMAIN res[KnownService].group_layers \cap {"g1"}, n \in ConfiguredNames(res)}

\* the permitted sets: every name, every name but one group, or no name
StackPermitted(res) == {ConfiguredNames(res), {}} \cup {ConfiguredNames(res) \ {n} : n \in DOMAIN res[KnownService].group_layers}

InitStack ==
    /\ pc = "expand" /\ service_name = KnownService /\ settings = DefaultSettings
    /\ arg \in {[fn |-> "expand_group_layers", root_layer |-> r] : r \in RootLayers}
    /\ resources = load_resources(arg.root_layer)
    /\ layers \in StackRequests(resources)
    /\ params \in {EmptyParams, ("styles" :> <<"st">>)}
    /\ wms_permissions \in {<<GrantOf(S, <<>>)>> : S \in StackPermitted(resources)}
    /\ expanded_layers = <<>> /\ layer_infos = <<>> /\ fetched = <<>> /\ info_xml = NoDocument /\ layer_out = NoLayerOut /\ idx = 0
    /\ sql = NoSql /\ _wms_cache = NoCache /\ calls = NoCalls /\ ret = NoRet

\* query() calls expand_group_layers(layers, requested_styles, ...)
ExpandCall ==
    /\ pc = "expand"
    /\ calls' = PushFrame(calls, Frame(layers, RequestedStyles(params)))
    /\ pc' = "expanding"
    /\ UNCHANGED <<service_name, wms_permissions, layers, params, resources, expanded_layers, layer_infos, fetched, info_xml, layer_out, settings, idx, sql, _wms_cache, arg, ret>>

\* if layer in permitted_layers: no
ExpandSkip ==
    /\ InLoop /\ TopLayer \notin permitted_layers(resources, wms_permissions, service_name)
    /\ calls' = WithTop([TopFrame EXCEPT !.i = @ + 1])
    /\ UNCHANGED <<pc, service_name, wms_permissions, layers, params, resources, expanded_layers, layer_infos, fetched, info_xml, layer_out, settings, idx, sql, _wms_cache, arg, ret>>

\* leaf layer: expanded_layers.append({'layer': layer, 'style': style})
ExpandLeaf ==
    /\ InLoop /\ TopLayer \in permitted_layers(resources, wms_permissions, service_name)
    /\ TopLayer \notin DOMAIN resources[service_name].group_layers
    /\ calls' = WithTop([TopFrame EXCEPT !.i = @ + 1, !.expanded_layers = Append(@, [layer |-> TopLayer, style |-> TopStyle])])
    /\ UNCHANGED <<pc, service_name, wms_permissions, layers, params, resources, expanded_layers, layer_infos, fetched, info_xml, layer_out, settings, idx, sql, _wms_cache, arg, ret>>

\* group: the recursive call on its permitted sublayers, each with the style
ExpandGroup ==
    /\ InLoop /\ TopLayer \in permitted_layers(resources, wms_permissions, service_name)
    /\ TopLayer \in DOMAIN resources[service_name].group_layers
    /\ LET sublayers == PermittedSublayers(TopLayer, resources[service_name].group_layers, permitted_layers(resources, wms_permissions, service_name))
       IN  calls' = PushFrame(calls, Frame(sublayers, [j \in 1..Len(sublayers) |-> TopStyle]))
    /\ UNCHANGED <<pc, service_name, wms_permissions, layers, params, resources, expanded_layers, layer_infos, fetched, info_xml, layer_out, settings, idx, sql, _wms_cache, arg, ret>>

\* return expanded_layers to the calling frame: expanded_layers += ...
ExpandReturn ==
    /\ pc = "expanding" /\ Len(calls) > 1 /\ TopFrame.i > Len(TopFrame.requested_layers)
    /\ calls' = [k \in 1..(Len(calls) - 1) |->
                    IF k = Len(calls) - 1 THEN [calls[k] EXCEPT !.i = @ + 1, !.expanded_layers = @ \o TopFrame.expanded_layers] ELSE calls[k]]
    /\ UNCHANGED <<pc, service_name, wms_permissions, layers, params, resources, expanded_layers, layer_infos, fetched, info_xml, layer_out, settings, idx, sql, _wms_cache, arg, ret>>

\* return expanded_layers to query()
ExpandDone ==
    /\ pc = "expanding" /\ Len(calls) = 1 /\ TopFrame.i > Len(TopFrame.requested_layers)
    /\ expanded_layers' = TopFrame.expanded_layers
    /\ calls' = NoCalls
    /\ pc' = "expanded"
    /\ UNCHANGED <<service_name, wms_permissions, layers, params, resources, layer_infos, fetched, info_xml, layer_out, settings, idx, sql, _wms_cache, arg, ret>>

NextStack == ExpandCall \/ ExpandSkip \/ ExpandLeaf \/ ExpandGroup \/ ExpandReturn \/ ExpandDone

\* the interpreter runs the call as long as it has a step to take
SpecStack == InitStack /\ [][NextStack]_vars /\ WF_vars(NextStack)

RECURSIVE GroupDepth(_, _)
\* the group levels of the configured tree from the name down
GroupDepth(group_layers, name) ==
    IF name \notin DOMAIN group_layers THEN 0
    ELSE LET below == {GroupDepth(group_layers, group_layers[name][k]) : k \in DOMAIN group_layers[name]}
         IN  1 + (CHOOSE d \in below : \A e \in below : e <= d)

RECURSIVE Reaches(_, _, _)
\* the name is below the group within n levels
Reaches(group_layers, from, n) ==
    IF n = 0 \/ from \notin DOMAIN group_layers THEN {}
    ELSE Range(group_layers[from]) \cup UNION {Reaches(group_layers, group_layers[from][k], n - 1) : k \in DOMAIN group_layers[from]}

\* no group is below itself
Acyclic(group_layers) == \A g \in DOMAIN group_layers : g \notin Reaches(group_layers, g, Cardinality(DOMAIN group_layers))

\* the deepest configured tree below a requested name
RequestDepth == LET depths == {GroupDepth(GroupLayers, layers[k]) : k \in DOMAIN layers} IN CHOOSE d \in depths : \A e \in depths : e <= d

\* the recursion is never deeper than the first call and one call per group
\* level of the configured tree
DepthBounded == Acyclic(GroupLayers) => Len(calls) <= 1 + RequestDepth

\* expand_group_layers has returned to query() what the function computes
ExpandReturned == pc = "expanded" /\ calls = NoCalls /\ expanded_layers = expand_group_layers(layers, RequestedStyles(params), GroupLayers, Permitted)

\* C27: with an acyclic group configuration expand_group_layers returns for
\* every request, and its recursion is never deeper than the configured tree
C27_Terminates == []DepthBounded /\ <>ExpandReturned

\* the recursion at its deepest below the outermost of MaxDepth nested groups
C27_Witness == pc = "expanding" /\ layers = <<"g1">> /\ Len(calls) = 1 + MaxDepth /\ Len(calls) = 1 + RequestDepth


----------------------------------------------------------------------------
(* The request flags across the layers of one query *)

\* C28: within one query every layer that is fetched is processed with the
\* same request flags, those of the request (the n-th layer sees what the
\* first saw), and none of LAYERATTRIBS, GEOMCENTROID, with_htmlcontent and
\* with_bbox is among the params handed to a provider.
C28_SameFlags ==
    \A n \in DOMAIN fetched :
        /\ fetched[n].flags = fetched[1].flags
        /\ fetched[n].flags = RequestFlags(params)
        /\ DOMAIN fetched[n].params \cap FlagNames = {}

\* a query whose second fetched layer is processed with a flag the request
\* set away from its default
C28_Witness ==
    /\ pc = "done"
    /\ Len(fetched) >= 2
    /\ "with_htmlcontent" \in DOMAIN params
    /\ ~fetched[2].flags.with_htmlcontent
    /\ fetched[1].layer # fetched[2].layer


----------------------------------------------------------------------------
(* Layers that are not queryable *)

\* the resolved layers query() has been through
Processed == IF pc \in {"layers", "done", "raised"} /\ idx > 0 THEN SubSeq(expanded_layers, 1, idx - 1) ELSE <<>>

\* every grant that names the layer sets queryable to false on its entry
EveryGrantForbids(perms, layer) ==
    \A g \in DOMAIN perms : FirstMatch(perms[g].layers, layer) # <<>> =>
        (Has(FirstMatch(perms[g].layers, layer)[1], "queryable") /\ ~FirstMatch(perms[g].layers, layer)[1].queryable)

\* C29: a resolved layer whose merged queryable flag is false, which is a
\* layer on which every grant naming it sets queryable to false, has no
\* provider fetch made for it and no Layer element in the collected infos or
\* in the document.
C29_NotQueryableSilent ==
    \A k \in DOMAIN Processed :
        LET layer == Processed[k].layer
        IN  /\ ~layer_permissions(wms_permissions, layer).queryable <=> EveryGrantForbids(wms_permissions, layer)
            /\ ~layer_permissions(wms_permissions, layer).queryable =>
                  /\ \A f \in DOMAIN fetched : fetched[f].layer # layer
                  /\ \A i \in DOMAIN layer_infos : layer_infos[i].layername # layer
                  /\ \A i \in DOMAIN info_xml.Layer : info_xml.Layer[i].layername # layer

\* a finished query of two leaves: the first is not queryable and left out,
\* the second is made queryable by a second grant and is in the document
C29_Witness ==
    /\ Done /\ layers = <<"m", "w">> /\ Len(wms_permissions) = 2
    /\ LayerNames(expanded_layers) = <<"m", "w">>
    /\ ~layer_permissions(wms_permissions, "m").queryable
    /\ [f \in DOMAIN fetched |-> fetched[f].layer] = <<"w">>
    /\ [i \in DOMAIN info_xml.Layer |-> info_xml.Layer[i].layername] = <<"w">>


----------------------------------------------------------------------------
(* Groups on the way to an emitted leaf *)

RECURSIVE ThroughPermitted(_, _)
\* the leaf is the name itself, or lies below the name, with the name and
\* every group between the name and the leaf permitted
ThroughPermitted(name, leaf) ==
    /\ name \in Permitted
    /\ IF name \in DOMAIN GroupLayers
       THEN \E c \in Range(GroupLayers[name]) : ThroughPermitted(c, leaf)
       ELSE name = leaf

RECURSIVE Below(_, _)
\* the leaf is the name itself or lies below it, permitted or not
Below(name, leaf) ==
    IF name \in DOMAIN GroupLayers THEN \E c \in Range(GroupLayers[name]) : Below(c, leaf) ELSE name = leaf

\* C30: the leaves expand_group_layers emits are the permitted leaves that
\* some requested name reaches through permitted groups only; a permitted
\* leaf that the requested names reach through a group that is not permitted
\* is emitted only if it is also requested by its own name or reached through
\* permitted groups.
C30_PermittedPath ==
    Expanded =>
        /\ \A k \in DOMAIN expanded_layers : \E i \in DOMAIN layers : ThroughPermitted(layers[i], expanded_layers[k].layer)
        /\ \A leaf \in Permitted \ DOMAIN GroupLayers :
              ((\E i \in DOMAIN layers : Below(layers[i], leaf)) /\ ~(\E i \in DOMAIN layers : ThroughPermitted(layers[i], leaf)))
                  => leaf \notin Range(LayerNames(expanded_layers))

\* the group g is requested with g and every leaf permitted and the nested
\* group h not: the leaves s and m below h are left out, w is emitted
C30_Witness ==
    /\ Expanded /\ layers = <<"g">>
    /\ Permitted = {"g", "w", "s", "m"}
    /\ LayerNames(expanded_layers) = <<"w">>

====
